---------------------------- MODULE Spec2Model ----------------------------
(***************************************************************************)
(* Model of ViewCounter-d (src/code.js): the proxy pool manager            *)
(* (fetchFreeProxyList, getNextFreeProxy, fetchProxiflyProxies,            *)
(* getNextProxiflyProxy), the retry/backoff routine scrapeWithRetry and    *)
(* the two dispatchers runSequentialScraping / runConcurrentScraping.      *)
(*                                                                         *)
(* Every thread of the program (the main thread 0 and one worker_threads   *)
(* Worker per request, which re-evaluates the whole file) has its own      *)
(* copy of the module-level globals, so each global is modelled as a       *)
(* function from thread to value.  One action is one stretch of code       *)
(* between two awaits of external I/O (a source request, a visit, a timer).*)
(*                                                                         *)
(* Specifications:                                                         *)
(*   Spec      the whole program, sequential or concurrent by CONFIG       *)
(*   SpecSeq   runSequentialScraping on the main thread                    *)
(*   SpecUnit  the startup fetch followed by one scrapeWithRetry call      *)
(*   SpecPool  the pool manager under an arbitrary sequence of calls       *)
(*   SpecTake  the pool manager under a short sequence of calls            *)
(*   SpecId    getProxyId on the records of one API answer                 *)
(*   SpecFixed the free-list pool manager when every source serves the     *)
(*             same lines at every request and no request fails            *)
(*   SpecLate  runConcurrentScraping without a proxy pool, where a worker  *)
(*             thread may also fail after it has posted its result         *)
(*                                                                         *)
(* In Spec a worker thread ends with its post; the events a Worker object  *)
(* emits after the post are explored in SpecLate only.                     *)
(***************************************************************************)
EXTENDS Integers, Sequences, FiniteSets, TLC

(* ---------------- bounds of the model ---------------- *)
NumIds == 2          \* distinct host:port strings the providers can list
MaxLen == 2          \* longest list one provider response carries
MaxCalls == 7        \* getNext calls made by the pool driver (SpecPool)
TakeCalls == 2       \* getNext calls made by the pool driver (SpecTake)
MaxRetriesBound == 2 \* largest CONFIG.maxRetries explored (SpecSeq)
SeqMaxTotal == 2     \* largest CONFIG.totalRequests explored (SpecSeq)
RunMaxRetries == 1   \* largest CONFIG.maxRetries in whole-program runs (Spec)
MaxTotal == 3        \* largest CONFIG.totalRequests explored
MaxConc == 2         \* largest CONFIG.maxConcurrent explored
RunMaxLen == 1       \* longest provider list in whole-program runs (Spec)
RunNumIds == 1       \* distinct host:port strings listed in whole-program runs

(* ---------------- program constants ---------------- *)
MAX_FETCH_ATTEMPTS == 5
NumSources == 2      \* CONFIG.freeProxyList.sources.length
NAV_TIMEOUT == 160000 \* CONFIG.timeout (line 41), quoted in the navigation TimeoutError

NoStr == <<>>         \* an absent or empty string field (falsy)
Absent == 0           \* an absent numeric field (falsy)
Main == 0
Threads == 0..MaxTotal
Ports == {8080}
\* a "host:port" string is modelled as the pair <<host, port>>
HostPort(ip, port) == <<ip, port>>
Ids == {HostPort(h, p) : h \in 1..NumIds, p \in Ports}

(* ---------------- strings that the code inspects ---------------- *)
\* An error is modelled by its name, a label for its literal text and the
\* numbers that appear in its message (the only parts the code looks at).
\* http is the number that follows the word "HTTP " in the message, if any.
Err(name, text, nums) ==
    [name |-> name, text |-> text, nums |-> nums, http |-> Absent]

NoError == Err("", "", <<>>)

\* new Error(`${prefix}: ${error.message}`)
Wrap(prefix, error) == [error EXCEPT !.name = "Error", !.text = prefix]

RECURSIVE Digits(_)
Digits(n) == IF n < 10 THEN <<n>> ELSE Append(Digits(n \div 10), n % 10)

\* String.prototype.includes for a pattern made of digits
IsInfix(pat, s) ==
    \E k \in 0..(Len(s) - Len(pat)) : \A j \in 1..Len(pat) : s[k + j] = pat[j]

Includes(message, pat) ==
    \E k \in 1..Len(message.nums) : IsInfix(pat, Digits(message.nums[k]))

\* error.message.match(/HTTP (\d+)/)?.[1] || 'Unknown'
MatchHttpStatus(message) ==
    IF message.http # Absent THEN message.http ELSE Absent

(* ---------------- proxy records ---------------- *)
Proxy(ipPort, ip, port, source) ==
    [ipPort |-> ipPort, ip |-> ip, port |-> port, source |-> source]

\* variant: the port is left out of the identity of an ip/port record
getProxyIdDropsPort(proxy) ==
    IF proxy.ipPort # NoStr THEN proxy.ipPort
    ELSE IF proxy.ip # Absent /\ proxy.port # Absent THEN HostPort(proxy.ip, Absent)
    ELSE <<proxy>>

getProxyId(proxy) ==
    IF proxy.ipPort # NoStr THEN proxy.ipPort
    ELSE IF proxy.ip # Absent /\ proxy.port # Absent THEN HostPort(proxy.ip, proxy.port)
    ELSE <<proxy>>

NoProxy == Proxy(NoStr, Absent, Absent, Absent)   \* currentProxy = null
NoResult == [success |-> FALSE, status |-> Absent, error |-> NoError]

\* the lines of a list body, turned into records (src lines 173-179)
LineRecords(lines, sourceIndex) ==
    [k \in 1..Len(lines) |-> Proxy(lines[k], Absent, Absent, sourceIndex + 1)]

\* variant: the registry is asked for ip:port even when the record has ipPort
IsUnusedByIpAndPort(proxy, used) == HostPort(proxy.ip, proxy.port) \notin used

\* newProxies.filter(proxy => !usedProxies.has(getProxyId(proxy)))
IsUnused(proxy, used) == getProxyId(proxy) \notin used

\* variant: the first candidate is kept whether registered or not
FilterUnusedButFirst(proxies, used) ==
    IF proxies = <<>> THEN <<>>
    ELSE <<proxies[1]>> \o SelectSeq(Tail(proxies), LAMBDA p : IsUnused(p, used))

FilterUnused(proxies, used) ==
    SelectSeq(proxies, LAMBDA p : IsUnused(p, used))

\* Array.prototype.splice(index, 1) with a 1-based index
Splice(list, index) ==
    [k \in 1..(Len(list) - 1) |-> IF k < index THEN list[k] ELSE list[k + 1]]

(* ---------------- what the outside world can answer ---------------- *)
SeqsUpTo(S, n) == UNION {[1..k -> S] : k \in 0..n}

\* fetchFromUrl: the body's lines, or a rejection (HTTP status / socket error)
ListResponsesOver(S, n) ==
    [kind : {"lines"}, lines : SeqsUpTo(S, n)]
    \cup {[kind |-> "reject",
           error |-> [Err("Error", "HTTP", <<503>>) EXCEPT !.http = 503]],
          [kind |-> "reject", error |-> Err("Error", "socket", <<>>)]}

\* records the Proxifly API can return: combined ipPort or separate ip/port
ApiRecords(S) ==
    {Proxy(i, Absent, Absent, Absent) : i \in S}
    \cup {Proxy(NoStr, i[1], i[2], Absent) : i \in S}

ApiResponsesOver(S, n) ==
    [kind : {"array"}, items : SeqsUpTo(ApiRecords(S), n)]
    \cup [kind : {"object"}, item : ApiRecords(S)]
    \cup {[kind |-> "other"],
          [kind |-> "reject", error |-> Err("Error", "api", <<>>)]}

ListResponses == ListResponsesOver(Ids, MaxLen)
ApiResponses == ApiResponsesOver(Ids, MaxLen)

\* whole-program runs: every provider lists the same few addresses
RunIds == {HostPort(h, p) : h \in 1..RunNumIds, p \in Ports}
RunListResponses == ListResponsesOver(RunIds, RunMaxLen)
RunApiResponses == ApiResponsesOver(RunIds, RunMaxLen)
\* single-thread runs: few addresses, lists long enough to repeat one
SeqListResponses == ListResponsesOver(RunIds, MaxLen)
SeqApiResponses == ApiResponsesOver(RunIds, MaxLen)

(* ---------------- state ---------------- *)
VARIABLES
    CONFIG,               \* the CONFIG object as written in the file
    proxyMode,            \* CONFIG.proxyMode of each thread (main may reset it)
    proxiflyProxies, proxiflyCurrentIndex,
    freeProxyList, freeProxyIndex,
    usedProxies, proxyFetchAttempts, currentSourceIndex,
    pc,                   \* where each thread is
    stack,                \* frames of fetchFreeProxyList awaiting a callee
    fetchFor,             \* caller of the fetch in progress: "startup" | "next" | "none"
    unit,                 \* 1-based request number the thread works on
    retryCount,           \* parameter of the running scrapeWithRetry call
    currentProxy,         \* local of scrapeWithRetry
    proxyServer,          \* --proxy-server of the browser launched for the attempt
    thrown,               \* exception on its way to the catch block
    result,               \* value returned by scrapeWithRetry
    results,              \* dispatcher statistics {successful, failed, total}
    batch,                \* loop variable of runConcurrentScraping
    inbox,                \* worker events emitted, not yet handled by main
    settled,              \* workers whose batch promise has resolved
    recorded,             \* the value each batch promise resolved with
    produced,             \* history: how each worker thread ended
    pauses,               \* history: inter-unit / inter-batch pauses slept
    batchSizes,           \* history: number of workers created per batch
    handed,               \* history: records returned by the getNext functions
    sleeps,               \* history: backoff delays slept by the current unit
    visits,               \* history: executor invocations of the current unit
    onlyRetryable,        \* history: every failure of the current unit so far
                          \*          was a 429, a 5xx or a timeout of the visit
    requests,             \* history: provider requests of the current call
    allZero,              \* history: every answer of the current call was
                          \*          a list without any unused candidate
    lastFetch             \* history: the candidates of the successful fetch
                          \*          just made, the registry then, the pool
                          \*          installed (until the caller goes on)

poolVars == <<proxiflyProxies, proxiflyCurrentIndex, freeProxyList,
              freeProxyIndex, usedProxies, proxyFetchAttempts,
              currentSourceIndex>>
fetchVars == <<stack, fetchFor, requests, allZero, lastFetch>>
unitVars == <<unit, retryCount, currentProxy, proxyServer, thrown, result, sleeps, visits,
             onlyRetryable>>
runVars == <<results, batch, inbox, settled, recorded, produced, pauses, batchSizes>>
vars == <<CONFIG, proxyMode, poolVars, pc, fetchVars, unitVars, runVars, handed>>

Upd(f, c, v) == [f EXCEPT ![c] = v]

(* ---------------- module-level initialisation (src lines 102-110) ------- *)
FreshGlobals ==
    /\ proxiflyProxies = [c \in Threads |-> <<>>]
    /\ proxiflyCurrentIndex = [c \in Threads |-> 0]
    /\ freeProxyList = [c \in Threads |-> <<>>]
    /\ freeProxyIndex = [c \in Threads |-> 0]
    /\ usedProxies = [c \in Threads |-> {}]
    /\ proxyFetchAttempts = [c \in Threads |-> 0]
    /\ currentSourceIndex = [c \in Threads |-> 0]

NoFetch == [raw |-> <<>>, used |-> {}, pool |-> <<>>]

FreshControl ==
    /\ stack = [c \in Threads |-> <<>>]
    /\ fetchFor = [c \in Threads |-> "none"]
    /\ unit = [c \in Threads |-> 0]
    /\ retryCount = [c \in Threads |-> 0]
    /\ currentProxy = [c \in Threads |-> NoProxy]
    /\ proxyServer = [c \in Threads |-> NoStr]
    /\ thrown = [c \in Threads |-> NoError]
    /\ result = [c \in Threads |-> NoResult]
    /\ results = [successful |-> 0, failed |-> 0, total |-> 0]
    /\ batch = 0
    /\ inbox = {}
    /\ settled = {}
    /\ recorded = [c \in Threads |-> "none"]
    /\ produced = [c \in Threads |-> "none"]
    /\ pauses = 0
    /\ batchSizes = <<>>
    /\ handed = {}
    /\ sleeps = [c \in Threads |-> <<>>]
    /\ visits = [c \in Threads |-> 0]
    /\ onlyRetryable = [c \in Threads |-> TRUE]
    /\ requests = [c \in Threads |-> 0]
    /\ allZero = [c \in Threads |-> TRUE]
    /\ lastFetch = [c \in Threads |-> NoFetch]

(* ---------------- fetchFreeProxyList (src lines 152-216) ---------------- *)
\* A frame is one activation of fetchFreeProxyList(sourceIndex); inCatch
\* tells whether it awaits its callee from the try block or the catch block.
Frame(sourceIndex) == [sourceIndex |-> sourceIndex, inCatch |-> FALSE]

AllSourcesExhausted == Err("Error", "All free proxy list sources exhausted", <<>>)

\* An exception reaches the innermost activation: its catch block (205-215)
\* tries the next source or rethrows; an exception raised in a catch block
\* leaves the activation.
RECURSIVE Unwind(_, _)
Unwind(stk, e) ==
    IF stk = <<>> THEN [stack |-> <<>>, error |-> e]
    ELSE LET top == stk[Len(stk)]
             rest == SubSeq(stk, 1, Len(stk) - 1)
         IN  IF top.inCatch THEN Unwind(rest, e)
             ELSE IF top.sourceIndex + 1 < NumSources
             THEN [stack |-> rest \o <<[top EXCEPT !.inCatch = TRUE],
                                       Frame(top.sourceIndex + 1)>>,
                   error |-> NoError]
             ELSE Unwind(rest, Wrap("Failed to fetch proxies from all sources", e))

\* fetchFreeProxyList(sourceIndex) called from the try block of the
\* innermost activation of stk (lines 155-157, 193)
CallFetchFreeProxyList(stk, sourceIndex) ==
    IF sourceIndex >= NumSources THEN Unwind(stk, AllSourcesExhausted)
    ELSE [stack |-> Append(stk, Frame(sourceIndex)), error |-> NoError]

\* variant: the cursor is advanced twice
FreeTakeSkips(c, list, index) ==
    /\ \E randomIndex \in 1..Len(list) :
         LET proxy == IF CONFIG.rotateProxies THEN list[index + 1]
                      ELSE list[randomIndex]
         IN  /\ freeProxyList' = Upd(freeProxyList, c,
                    IF CONFIG.rotateProxies THEN list ELSE Splice(list, randomIndex))
             /\ freeProxyIndex' = Upd(freeProxyIndex, c,
                    IF CONFIG.rotateProxies THEN index + 2 ELSE index)
             /\ usedProxies' = Upd(usedProxies, c, usedProxies[c] \cup {getProxyId(proxy)})
             /\ currentProxy' = Upd(currentProxy, c, proxy)
             /\ UNCHANGED proxyServer
             /\ handed' = handed \cup {[thread |-> c, unit |-> unit[c],
                                        attempt |-> retryCount[c], proxy |-> proxy]}
    /\ pc' = Upd(pc, c, "visit")
    /\ UNCHANGED thrown

\* variant: freeProxyIndex++ is missing
FreeTakeNoAdvance(c, list, index) ==
    /\ \E randomIndex \in 1..Len(list) :
         LET proxy == IF CONFIG.rotateProxies THEN list[index + 1]
                      ELSE list[randomIndex]
         IN  /\ freeProxyList' = Upd(freeProxyList, c,
                    IF CONFIG.rotateProxies THEN list ELSE Splice(list, randomIndex))
             /\ freeProxyIndex' = Upd(freeProxyIndex, c, index)
             /\ usedProxies' = Upd(usedProxies, c, usedProxies[c] \cup {getProxyId(proxy)})
             /\ currentProxy' = Upd(currentProxy, c, proxy)
             /\ UNCHANGED proxyServer
             /\ handed' = handed \cup {[thread |-> c, unit |-> unit[c],
                                        attempt |-> retryCount[c], proxy |-> proxy]}
    /\ pc' = Upd(pc, c, "visit")
    /\ UNCHANGED thrown

\* lines 239-255 of getNextFreeProxy, on the pool (list, index)
FreeTake(c, list, index) ==
    /\ \E randomIndex \in 1..Len(list) :
         LET proxy == IF CONFIG.rotateProxies THEN list[index + 1]
                      ELSE list[randomIndex]
         IN  /\ freeProxyList' = Upd(freeProxyList, c,
                    IF CONFIG.rotateProxies THEN list ELSE Splice(list, randomIndex))
             /\ freeProxyIndex' = Upd(freeProxyIndex, c,
                    IF CONFIG.rotateProxies THEN index + 1 ELSE index)
             /\ usedProxies' = Upd(usedProxies, c, usedProxies[c] \cup {getProxyId(proxy)})
             /\ currentProxy' = Upd(currentProxy, c, proxy)
             /\ UNCHANGED proxyServer
             /\ handed' = handed \cup {[thread |-> c, unit |-> unit[c],
                                        attempt |-> retryCount[c], proxy |-> proxy]}
    /\ pc' = Upd(pc, c, "visit")
    /\ UNCHANGED thrown

\* the fetch was started by the dispatcher at startup: its try/catch
\* (lines 900-918, 1026-1044) falls back to no proxy on failure
StartupDone(c, failed) ==
    /\ proxyMode' = Upd(proxyMode, c, IF failed THEN "none" ELSE proxyMode[c])
    /\ pc' = Upd(pc, c, "dispatch")
    /\ UNCHANGED <<currentProxy, proxyServer, thrown, handed>>

\* variant: the pool is installed even when the filter left nothing
FreeFetchStepKeepsEmpty(c, resp) ==
    /\ pc[c] = "fetch" /\ proxyMode[c] = "free-proxy-list"
    /\ LET stk == stack[c]
           sourceIndex == stk[Len(stk)].sourceIndex
           raw == IF resp.kind = "lines" THEN LineRecords(resp.lines, sourceIndex)
                  ELSE <<>>
           newProxies == FilterUnused(raw, usedProxies[c])
           installed == resp.kind = "lines"
           r == IF resp.kind = "reject" THEN Unwind(stk, resp.error)
                ELSE IF installed THEN [stack |-> <<>>, error |-> NoError]
                ELSE CallFetchFreeProxyList(stk, sourceIndex + 1)
       IN  /\ requests' = Upd(requests, c, requests[c] + 1)
           /\ allZero' = Upd(allZero, c, allZero[c] /\ resp.kind = "lines" /\ ~installed)
           /\ lastFetch' = IF installed
                            THEN Upd(lastFetch, c, [raw |-> raw, used |-> usedProxies[c],
                                                    pool |-> newProxies])
                            ELSE lastFetch
           /\ stack' = Upd(stack, c, r.stack)
           /\ IF installed
              THEN /\ currentSourceIndex' = Upd(currentSourceIndex, c, sourceIndex)
                   /\ proxyFetchAttempts' = Upd(proxyFetchAttempts, c, 0)
                   /\ IF fetchFor[c] = "startup"
                      THEN /\ freeProxyList' = Upd(freeProxyList, c, newProxies)
                           /\ freeProxyIndex' = Upd(freeProxyIndex, c, 0)
                           /\ StartupDone(c, FALSE)
                           /\ UNCHANGED usedProxies
                      ELSE /\ FreeTake(c, newProxies, 0)
                           /\ UNCHANGED proxyMode
                   /\ fetchFor' = Upd(fetchFor, c, "none")
              ELSE /\ UNCHANGED <<freeProxyList, freeProxyIndex, usedProxies,
                                  currentSourceIndex, proxyFetchAttempts>>
                   /\ IF r.stack # <<>>
                      THEN UNCHANGED <<proxyMode, pc, fetchFor, currentProxy, proxyServer, thrown, handed>>
                      ELSE /\ fetchFor' = Upd(fetchFor, c, "none")
                           /\ IF fetchFor[c] = "startup"
                              THEN StartupDone(c, TRUE)
                              ELSE /\ thrown' = Upd(thrown, c,
                                         Wrap("Failed to fetch new proxies", r.error))
                                   /\ pc' = Upd(pc, c, "caught")
                                   /\ UNCHANGED <<proxyMode, currentProxy, proxyServer, handed>>
    /\ UNCHANGED <<CONFIG, proxiflyProxies, proxiflyCurrentIndex, unit, retryCount,
                   result, sleeps, visits, onlyRetryable, runVars>>

\* One answer of fetchFromUrl to the innermost activation.
FreeFetchStep(c, resp) ==
    /\ pc[c] = "fetch" /\ proxyMode[c] = "free-proxy-list"
    /\ LET stk == stack[c]
           sourceIndex == stk[Len(stk)].sourceIndex
           raw == IF resp.kind = "lines" THEN LineRecords(resp.lines, sourceIndex)
                  ELSE <<>>
           newProxies == FilterUnused(raw, usedProxies[c])
           installed == resp.kind = "lines" /\ Len(newProxies) > 0
           r == IF resp.kind = "reject" THEN Unwind(stk, resp.error)
                ELSE IF installed THEN [stack |-> <<>>, error |-> NoError]
                ELSE CallFetchFreeProxyList(stk, sourceIndex + 1)
       IN  /\ requests' = Upd(requests, c, requests[c] + 1)
           /\ allZero' = Upd(allZero, c, allZero[c] /\ resp.kind = "lines" /\ ~installed)
           /\ lastFetch' = IF installed
                            THEN Upd(lastFetch, c, [raw |-> raw, used |-> usedProxies[c],
                                                    pool |-> newProxies])
                            ELSE lastFetch
           /\ stack' = Upd(stack, c, r.stack)
           /\ IF installed
              THEN /\ currentSourceIndex' = Upd(currentSourceIndex, c, sourceIndex)
                   /\ proxyFetchAttempts' = Upd(proxyFetchAttempts, c, 0)
                   /\ IF fetchFor[c] = "startup"
                      THEN /\ freeProxyList' = Upd(freeProxyList, c, newProxies)
                           /\ freeProxyIndex' = Upd(freeProxyIndex, c, 0)
                           /\ StartupDone(c, FALSE)
                           /\ UNCHANGED usedProxies
                      ELSE /\ FreeTake(c, newProxies, 0)
                           /\ UNCHANGED proxyMode
                   /\ fetchFor' = Upd(fetchFor, c, "none")
              ELSE /\ UNCHANGED <<freeProxyList, freeProxyIndex, usedProxies,
                                  currentSourceIndex, proxyFetchAttempts>>
                   /\ IF r.stack # <<>>
                      THEN UNCHANGED <<proxyMode, pc, fetchFor, currentProxy, proxyServer, thrown, handed>>
                      ELSE /\ fetchFor' = Upd(fetchFor, c, "none")
                           /\ IF fetchFor[c] = "startup"
                              THEN StartupDone(c, TRUE)
                              ELSE /\ thrown' = Upd(thrown, c,
                                         Wrap("Failed to fetch new proxies", r.error))
                                   /\ pc' = Upd(pc, c, "caught")
                                   /\ UNCHANGED <<proxyMode, currentProxy, proxyServer, handed>>
    /\ UNCHANGED <<CONFIG, proxiflyProxies, proxiflyCurrentIndex, unit, retryCount,
                   result, sleeps, visits, onlyRetryable, runVars>>

(* ---------------- getNextFreeProxy (src lines 219-256) ---------------- *)
UnableToFetch ==
    Err("Error", "Unable to fetch new unique proxies", <<MAX_FETCH_ATTEMPTS>>)

\* variant: a used-up pool is reported at once, no refetch is tried
GetNextFreeProxyNoRefetch(c) ==
    /\ pc[c] = "attempt" /\ proxyMode[c] = "free-proxy-list"
    /\ requests' = Upd(requests, c, 0)
    /\ allZero' = Upd(allZero, c, TRUE)
    /\ IF Len(freeProxyList[c]) = 0 \/ freeProxyIndex[c] >= Len(freeProxyList[c])
       THEN /\ proxyFetchAttempts' = Upd(proxyFetchAttempts, c, proxyFetchAttempts[c] + 1)
            /\ IF proxyFetchAttempts[c] + 1 >= 1
               THEN /\ thrown' = Upd(thrown, c, UnableToFetch)
                    /\ pc' = Upd(pc, c, "caught")
                    /\ UNCHANGED <<stack, fetchFor>>
               ELSE /\ stack' = Upd(stack, c,
                          <<Frame((currentSourceIndex[c] + 1) % NumSources)>>)
                    /\ fetchFor' = Upd(fetchFor, c, "next")
                    /\ pc' = Upd(pc, c, "fetch")
                    /\ UNCHANGED thrown
            /\ UNCHANGED <<freeProxyList, freeProxyIndex, usedProxies, currentProxy, proxyServer, handed>>
       ELSE /\ FreeTake(c, freeProxyList[c], freeProxyIndex[c])
            /\ UNCHANGED <<proxyFetchAttempts, stack, fetchFor>>
    /\ UNCHANGED <<CONFIG, proxyMode, proxiflyProxies, proxiflyCurrentIndex,
                   currentSourceIndex, unit, retryCount, result, sleeps, visits,
                   onlyRetryable, runVars, lastFetch>>

\* variant: the counter starts again once the limit has been reported
GetNextFreeProxyStartsOver(c) ==
    /\ pc[c] = "attempt" /\ proxyMode[c] = "free-proxy-list"
    /\ requests' = Upd(requests, c, 0)
    /\ allZero' = Upd(allZero, c, TRUE)
    /\ IF Len(freeProxyList[c]) = 0 \/ freeProxyIndex[c] >= Len(freeProxyList[c])
       THEN /\ proxyFetchAttempts' = Upd(proxyFetchAttempts, c,
                   IF proxyFetchAttempts[c] + 1 >= MAX_FETCH_ATTEMPTS THEN 0
                   ELSE proxyFetchAttempts[c] + 1)
            /\ IF proxyFetchAttempts[c] + 1 >= MAX_FETCH_ATTEMPTS
               THEN /\ thrown' = Upd(thrown, c, UnableToFetch)
                    /\ pc' = Upd(pc, c, "caught")
                    /\ UNCHANGED <<stack, fetchFor>>
               ELSE /\ stack' = Upd(stack, c,
                          <<Frame((currentSourceIndex[c] + 1) % NumSources)>>)
                    /\ fetchFor' = Upd(fetchFor, c, "next")
                    /\ pc' = Upd(pc, c, "fetch")
                    /\ UNCHANGED thrown
            /\ UNCHANGED <<freeProxyList, freeProxyIndex, usedProxies, currentProxy, proxyServer, handed>>
       ELSE /\ FreeTake(c, freeProxyList[c], freeProxyIndex[c])
            /\ UNCHANGED <<proxyFetchAttempts, stack, fetchFor>>
    /\ UNCHANGED <<CONFIG, proxyMode, proxiflyProxies, proxiflyCurrentIndex,
                   currentSourceIndex, unit, retryCount, result, sleeps, visits,
                   onlyRetryable, runVars, lastFetch>>

\* variant: the next source index is not taken modulo the number of sources
GetNextFreeProxyNoWrap(c) ==
    /\ pc[c] = "attempt" /\ proxyMode[c] = "free-proxy-list"
    /\ requests' = Upd(requests, c, 0)
    /\ allZero' = Upd(allZero, c, TRUE)
    /\ IF Len(freeProxyList[c]) = 0 \/ freeProxyIndex[c] >= Len(freeProxyList[c])
       THEN /\ proxyFetchAttempts' = Upd(proxyFetchAttempts, c, proxyFetchAttempts[c] + 1)
            /\ IF proxyFetchAttempts[c] + 1 >= MAX_FETCH_ATTEMPTS
               THEN /\ thrown' = Upd(thrown, c, UnableToFetch)
                    /\ pc' = Upd(pc, c, "caught")
                    /\ UNCHANGED <<stack, fetchFor>>
               ELSE /\ stack' = Upd(stack, c,
                          <<Frame(currentSourceIndex[c] + 1)>>)
                    /\ fetchFor' = Upd(fetchFor, c, "next")
                    /\ pc' = Upd(pc, c, "fetch")
                    /\ UNCHANGED thrown
            /\ UNCHANGED <<freeProxyList, freeProxyIndex, usedProxies, currentProxy, proxyServer, handed>>
       ELSE /\ FreeTake(c, freeProxyList[c], freeProxyIndex[c])
            /\ UNCHANGED <<proxyFetchAttempts, stack, fetchFor>>
    /\ UNCHANGED <<CONFIG, proxyMode, proxiflyProxies, proxiflyCurrentIndex,
                   currentSourceIndex, unit, retryCount, result, sleeps, visits,
                   onlyRetryable, runVars, lastFetch>>

GetNextFreeProxy(c) ==
    /\ pc[c] = "attempt" /\ proxyMode[c] = "free-proxy-list"
    /\ requests' = Upd(requests, c, 0)
    /\ allZero' = Upd(allZero, c, TRUE)
    /\ IF Len(freeProxyList[c]) = 0 \/ freeProxyIndex[c] >= Len(freeProxyList[c])
       THEN /\ proxyFetchAttempts' = Upd(proxyFetchAttempts, c, proxyFetchAttempts[c] + 1)
            /\ IF proxyFetchAttempts[c] + 1 >= MAX_FETCH_ATTEMPTS
               THEN /\ thrown' = Upd(thrown, c, UnableToFetch)
                    /\ pc' = Upd(pc, c, "caught")
                    /\ UNCHANGED <<stack, fetchFor>>
               ELSE /\ stack' = Upd(stack, c,
                          <<Frame((currentSourceIndex[c] + 1) % NumSources)>>)
                    /\ fetchFor' = Upd(fetchFor, c, "next")
                    /\ pc' = Upd(pc, c, "fetch")
                    /\ UNCHANGED thrown
            /\ UNCHANGED <<freeProxyList, freeProxyIndex, usedProxies, currentProxy, proxyServer, handed>>
       ELSE /\ FreeTake(c, freeProxyList[c], freeProxyIndex[c])
            /\ UNCHANGED <<proxyFetchAttempts, stack, fetchFor>>
    /\ UNCHANGED <<CONFIG, proxyMode, proxiflyProxies, proxiflyCurrentIndex,
                   currentSourceIndex, unit, retryCount, result, sleeps, visits,
                   onlyRetryable, runVars, lastFetch>>

(* ---------------- fetchProxiflyProxies (src lines 259-338) -------------- *)
ApiKeyRequired == Err("Error", "Proxifly API key is required", <<>>)

\* variant: proxiflyProxies.splice(randomIndex, 1) is missing
ProxiflyTakeNoSplice(c, list, index) ==
    /\ \E randomIndex \in 1..Len(list) :
         LET proxy == IF CONFIG.rotateProxies THEN list[index + 1]
                      ELSE list[randomIndex]
         IN  /\ proxiflyProxies' = Upd(proxiflyProxies, c, list)
             /\ proxiflyCurrentIndex' = Upd(proxiflyCurrentIndex, c,
                    IF CONFIG.rotateProxies THEN index + 1 ELSE index)
             /\ usedProxies' = Upd(usedProxies, c, usedProxies[c] \cup {getProxyId(proxy)})
             /\ currentProxy' = Upd(currentProxy, c, proxy)
             /\ UNCHANGED proxyServer
             /\ handed' = handed \cup {[thread |-> c, unit |-> unit[c],
                                        attempt |-> retryCount[c], proxy |-> proxy]}
    /\ pc' = Upd(pc, c, "visit")
    /\ UNCHANGED thrown

\* lines 352-369 of getNextProxiflyProxy, on the pool (list, index)
ProxiflyTake(c, list, index) ==
    /\ \E randomIndex \in 1..Len(list) :
         LET proxy == IF CONFIG.rotateProxies THEN list[index + 1]
                      ELSE list[randomIndex]
         IN  /\ proxiflyProxies' = Upd(proxiflyProxies, c,
                    IF CONFIG.rotateProxies THEN list ELSE Splice(list, randomIndex))
             /\ proxiflyCurrentIndex' = Upd(proxiflyCurrentIndex, c,
                    IF CONFIG.rotateProxies THEN index + 1 ELSE index)
             /\ usedProxies' = Upd(usedProxies, c, usedProxies[c] \cup {getProxyId(proxy)})
             /\ currentProxy' = Upd(currentProxy, c, proxy)
             /\ UNCHANGED proxyServer
             /\ handed' = handed \cup {[thread |-> c, unit |-> unit[c],
                                        attempt |-> retryCount[c], proxy |-> proxy]}
    /\ pc' = Upd(pc, c, "visit")
    /\ UNCHANGED thrown

\* the fetch ends with an exception: back in the caller
FetchThrows(c, error) ==
    /\ fetchFor' = Upd(fetchFor, c, "none")
    /\ IF fetchFor[c] = "startup"
       THEN StartupDone(c, TRUE)
       ELSE /\ thrown' = Upd(thrown, c, Wrap("Failed to fetch new proxies", error))
            /\ pc' = Upd(pc, c, "caught")
            /\ UNCHANGED <<proxyMode, currentProxy, proxyServer, handed>>

\* variant: the pool is emptied before the answer is looked at
ProxiflyFetchStepClearsPool(c, resp) ==
    /\ pc[c] = "fetch" /\ proxyMode[c] = "proxifly"
    /\ LET raw == IF resp.kind = "array" THEN resp.items
                  ELSE IF resp.kind = "object" THEN <<resp.item>>
                  ELSE <<>>
           newProxies == FilterUnused(raw, usedProxies[c])
           installed == Len(newProxies) > 0
           allUsed == Len(raw) > 0 /\ ~installed
       IN  /\ requests' = Upd(requests, c, requests[c] + 1)
           /\ allZero' = Upd(allZero, c, allZero[c] /\ allUsed)
           /\ lastFetch' = IF installed
                            THEN Upd(lastFetch, c, [raw |-> raw, used |-> usedProxies[c],
                                                    pool |-> newProxies])
                            ELSE lastFetch
           /\ IF installed
              THEN /\ proxyFetchAttempts' = Upd(proxyFetchAttempts, c, 0)
                   /\ fetchFor' = Upd(fetchFor, c, "none")
                   /\ IF fetchFor[c] = "startup"
                      THEN /\ proxiflyProxies' = Upd(proxiflyProxies, c, newProxies)
                           /\ proxiflyCurrentIndex' = Upd(proxiflyCurrentIndex, c, 0)
                           /\ StartupDone(c, FALSE)
                           /\ UNCHANGED usedProxies
                      ELSE /\ ProxiflyTake(c, newProxies, 0)
                           /\ UNCHANGED proxyMode
              ELSE /\ proxiflyProxies' = Upd(proxiflyProxies, c, <<>>)
                   /\ UNCHANGED <<proxiflyCurrentIndex, usedProxies>>
                   /\ proxyFetchAttempts' = Upd(proxyFetchAttempts, c,
                          IF allUsed THEN proxyFetchAttempts[c] + 1
                          ELSE proxyFetchAttempts[c])
                   /\ IF allUsed /\ proxyFetchAttempts[c] + 1 < MAX_FETCH_ATTEMPTS
                      THEN UNCHANGED <<proxyMode, pc, fetchFor, currentProxy, proxyServer, thrown, handed>>
                      ELSE FetchThrows(c,
                             IF resp.kind = "reject" THEN resp.error
                             ELSE IF resp.kind = "other"
                             THEN Err("Error", "Unexpected response format from Proxifly API", <<>>)
                             ELSE IF Len(raw) = 0
                             THEN Err("Error", "No proxies returned from Proxifly API", <<>>)
                             ELSE UnableToFetch)
    /\ UNCHANGED <<CONFIG, freeProxyList, freeProxyIndex, currentSourceIndex, stack,
                   unit, retryCount, result, sleeps, visits, onlyRetryable, runVars>>

\* One answer of proxifly.getProxy(options) to the innermost activation.
ProxiflyFetchStep(c, resp) ==
    /\ pc[c] = "fetch" /\ proxyMode[c] = "proxifly"
    /\ LET raw == IF resp.kind = "array" THEN resp.items
                  ELSE IF resp.kind = "object" THEN <<resp.item>>
                  ELSE <<>>
           newProxies == FilterUnused(raw, usedProxies[c])
           installed == Len(newProxies) > 0
           allUsed == Len(raw) > 0 /\ ~installed
       IN  /\ requests' = Upd(requests, c, requests[c] + 1)
           /\ allZero' = Upd(allZero, c, allZero[c] /\ allUsed)
           /\ lastFetch' = IF installed
                            THEN Upd(lastFetch, c, [raw |-> raw, used |-> usedProxies[c],
                                                    pool |-> newProxies])
                            ELSE lastFetch
           /\ IF installed
              THEN /\ proxyFetchAttempts' = Upd(proxyFetchAttempts, c, 0)
                   /\ fetchFor' = Upd(fetchFor, c, "none")
                   /\ IF fetchFor[c] = "startup"
                      THEN /\ proxiflyProxies' = Upd(proxiflyProxies, c, newProxies)
                           /\ proxiflyCurrentIndex' = Upd(proxiflyCurrentIndex, c, 0)
                           /\ StartupDone(c, FALSE)
                           /\ UNCHANGED usedProxies
                      ELSE /\ ProxiflyTake(c, newProxies, 0)
                           /\ UNCHANGED proxyMode
              ELSE /\ UNCHANGED <<proxiflyProxies, proxiflyCurrentIndex, usedProxies>>
                   /\ proxyFetchAttempts' = Upd(proxyFetchAttempts, c,
                          IF allUsed THEN proxyFetchAttempts[c] + 1
                          ELSE proxyFetchAttempts[c])
                   /\ IF allUsed /\ proxyFetchAttempts[c] + 1 < MAX_FETCH_ATTEMPTS
                      THEN UNCHANGED <<proxyMode, pc, fetchFor, currentProxy, proxyServer, thrown, handed>>
                      ELSE FetchThrows(c,
                             IF resp.kind = "reject" THEN resp.error
                             ELSE IF resp.kind = "other"
                             THEN Err("Error", "Unexpected response format from Proxifly API", <<>>)
                             ELSE IF Len(raw) = 0
                             THEN Err("Error", "No proxies returned from Proxifly API", <<>>)
                             ELSE UnableToFetch)
    /\ UNCHANGED <<CONFIG, freeProxyList, freeProxyIndex, currentSourceIndex, stack,
                   unit, retryCount, result, sleeps, visits, onlyRetryable, runVars>>

(* ---------------- getNextProxiflyProxy (src lines 341-370) -------------- *)
\* variant: the registry is emptied before more proxies are fetched
GetNextProxiflyProxyForgets(c) ==
    /\ pc[c] = "attempt" /\ proxyMode[c] = "proxifly"
    /\ requests' = Upd(requests, c, 0)
    /\ allZero' = Upd(allZero, c, TRUE)
    /\ IF Len(proxiflyProxies[c]) = 0 \/ proxiflyCurrentIndex[c] >= Len(proxiflyProxies[c])
       THEN /\ IF CONFIG.apiKey
               THEN /\ fetchFor' = Upd(fetchFor, c, "next")
                    /\ pc' = Upd(pc, c, "fetch")
                    /\ UNCHANGED thrown
               ELSE /\ thrown' = Upd(thrown, c,
                          Wrap("Failed to fetch new proxies", ApiKeyRequired))
                    /\ pc' = Upd(pc, c, "caught")
                    /\ UNCHANGED fetchFor
            /\ usedProxies' = Upd(usedProxies, c, {})
            /\ UNCHANGED <<proxiflyProxies, proxiflyCurrentIndex, currentProxy, proxyServer, handed>>
       ELSE /\ ProxiflyTake(c, proxiflyProxies[c], proxiflyCurrentIndex[c])
            /\ UNCHANGED fetchFor
    /\ UNCHANGED <<CONFIG, proxyMode, freeProxyList, freeProxyIndex, proxyFetchAttempts,
                   currentSourceIndex, stack, unit, retryCount, result, sleeps,
                   visits, onlyRetryable, runVars, lastFetch>>

\* lines 341-370
GetNextProxiflyProxy(c) ==
    /\ pc[c] = "attempt" /\ proxyMode[c] = "proxifly"
    /\ requests' = Upd(requests, c, 0)
    /\ allZero' = Upd(allZero, c, TRUE)
    /\ IF Len(proxiflyProxies[c]) = 0 \/ proxiflyCurrentIndex[c] >= Len(proxiflyProxies[c])
       THEN /\ IF CONFIG.apiKey
               THEN /\ fetchFor' = Upd(fetchFor, c, "next")
                    /\ pc' = Upd(pc, c, "fetch")
                    /\ UNCHANGED thrown
               ELSE /\ thrown' = Upd(thrown, c,
                          Wrap("Failed to fetch new proxies", ApiKeyRequired))
                    /\ pc' = Upd(pc, c, "caught")
                    /\ UNCHANGED fetchFor
            /\ UNCHANGED <<proxiflyProxies, proxiflyCurrentIndex, usedProxies,
                           currentProxy, proxyServer, handed>>
       ELSE /\ ProxiflyTake(c, proxiflyProxies[c], proxiflyCurrentIndex[c])
            /\ UNCHANGED fetchFor
    /\ UNCHANGED <<CONFIG, proxyMode, freeProxyList, freeProxyIndex, proxyFetchAttempts,
                   currentSourceIndex, stack, unit, retryCount, result, sleeps,
                   visits, onlyRetryable, runVars, lastFetch>>

(* ---------------- startup fetch of the dispatchers ---------------------- *)
\* variant: the provider is called whether an API key is configured or not
StartupFetchSkipsKeyCheck(c) ==
    /\ pc[c] = "startup"
    /\ requests' = Upd(requests, c, 0)
    /\ allZero' = Upd(allZero, c, TRUE)
    /\ IF proxyMode[c] = "proxifly"
       THEN /\ pc' = Upd(pc, c, "fetch")
            /\ fetchFor' = Upd(fetchFor, c, "startup")
            /\ UNCHANGED <<stack, proxyMode>>
       ELSE IF proxyMode[c] = "proxifly"
       THEN /\ pc' = Upd(pc, c, "dispatch")
            /\ proxyMode' = Upd(proxyMode, c, "none")
            /\ UNCHANGED <<stack, fetchFor>>
       ELSE IF proxyMode[c] = "free-proxy-list"
       THEN /\ pc' = Upd(pc, c, "fetch")
            /\ fetchFor' = Upd(fetchFor, c, "startup")
            /\ stack' = Upd(stack, c, <<Frame(0)>>)
            /\ UNCHANGED proxyMode
       ELSE /\ pc' = Upd(pc, c, "dispatch")
            /\ UNCHANGED <<stack, fetchFor, proxyMode>>
    /\ UNCHANGED <<CONFIG, poolVars, unitVars, runVars, handed, lastFetch>>

\* src lines 900-918 (runConcurrentScraping) and 1026-1044 (runSequentialScraping)
StartupFetch(c) ==
    /\ pc[c] = "startup"
    /\ requests' = Upd(requests, c, 0)
    /\ allZero' = Upd(allZero, c, TRUE)
    /\ IF proxyMode[c] = "proxifly" /\ CONFIG.apiKey
       THEN /\ pc' = Upd(pc, c, "fetch")
            /\ fetchFor' = Upd(fetchFor, c, "startup")
            /\ UNCHANGED <<stack, proxyMode>>
       ELSE IF proxyMode[c] = "proxifly"
       THEN /\ pc' = Upd(pc, c, "dispatch")
            /\ proxyMode' = Upd(proxyMode, c, "none")
            /\ UNCHANGED <<stack, fetchFor>>
       ELSE IF proxyMode[c] = "free-proxy-list"
       THEN /\ pc' = Upd(pc, c, "fetch")
            /\ fetchFor' = Upd(fetchFor, c, "startup")
            /\ stack' = Upd(stack, c, <<Frame(0)>>)
            /\ UNCHANGED proxyMode
       ELSE /\ pc' = Upd(pc, c, "dispatch")
            /\ UNCHANGED <<stack, fetchFor, proxyMode>>
    /\ UNCHANGED <<CONFIG, poolVars, unitVars, runVars, handed, lastFetch>>

(* ---------------- scrapeWithRetry (src lines 538-861) ------------------- *)
Pooled(mode) == mode \in {"proxifly", "free-proxy-list"}

\* what one visit (browser launch, navigation, interaction) can end in
Statuses == {404, 405, 429, 503, 999}
Outcomes ==
    {[kind |-> k, status |-> 200] : k \in {"ok", "noresponse", "timeout", "error"}}
    \cup [kind : {"http"}, status : Statuses]

\* the outcomes explored in whole-program runs: success, a retried failure
\* and a failure that is not retried
RunOutcomes ==
    {o \in Outcomes : o.kind = "ok" \/ (o.kind = "http" /\ o.status \in {404, 503})}

\* lines 645-653: the error thrown for a status >= 400
HttpError(status, n) ==
    [Err("Error",
         IF (status = 429 \/ status >= 500) /\ n < CONFIG.maxRetries
         THEN "HTTP - Retry available" ELSE "HTTP",
         <<status>>) EXCEPT !.http = status]

VisitError(outcome, n) ==
    IF outcome.kind = "http" THEN HttpError(outcome.status, n)
    ELSE IF outcome.kind = "noresponse" THEN Err("Error", "No response received", <<>>)
    ELSE IF outcome.kind = "timeout"
    THEN Err("TimeoutError", "Navigation timeout exceeded", <<NAV_TIMEOUT>>)
    ELSE Err("Error", "net::ERR_FAILED", <<>>)

\* lines 553-560: the proxy, if the mode asks for one, is obtained first
ReadyToLaunch(c) ==
    \/ pc[c] = "visit"
    \/ pc[c] = "attempt" /\ ~Pooled(proxyMode[c])

\* CONFIG.proxy (src lines 57-63): host:port of the direct proxy
DirectProxy == HostPort(Absent, 9150)

InvalidProxyFormat == Err("Error", "Invalid proxy format from Proxifly", <<>>)

\* getBrowserOptions(proxyConfig) as evaluated by process c (src lines
\* 398-439): the host:port of the --proxy-server argument it pushes, NoStr
\* when it pushes none, or the error it throws
getBrowserOptions(c, proxyConfig) ==
    IF proxyMode[c] = "direct"
    THEN [proxyServer |-> DirectProxy, error |-> NoError]
    ELSE IF proxyMode[c] = "proxifly" /\ proxyConfig # NoProxy
    THEN IF proxyConfig.ipPort # NoStr
         THEN [proxyServer |-> proxyConfig.ipPort, error |-> NoError]
         ELSE IF proxyConfig.ip # Absent /\ proxyConfig.port # Absent
         THEN [proxyServer |-> HostPort(proxyConfig.ip, proxyConfig.port),
               error |-> NoError]
         ELSE [proxyServer |-> NoStr, error |-> InvalidProxyFormat]
    ELSE [proxyServer |-> NoStr, error |-> NoError]

\* lines 560-833: launch the browser and perform the visit
Visit(c, outcome) ==
    /\ ReadyToLaunch(c)
    /\ visits' = Upd(visits, c, visits[c] + 1)
    /\ proxyServer' = Upd(proxyServer, c,
                          getBrowserOptions(c, currentProxy[c]).proxyServer)
    /\ IF getBrowserOptions(c, currentProxy[c]).error # NoError
       THEN /\ thrown' = Upd(thrown, c, getBrowserOptions(c, currentProxy[c]).error)
            /\ pc' = Upd(pc, c, "caught")
            /\ UNCHANGED result
       ELSE IF outcome.kind = "ok"
       THEN /\ result' = Upd(result, c,
                   [success |-> TRUE, status |-> outcome.status, error |-> NoError])
            /\ pc' = Upd(pc, c, "return")
            /\ UNCHANGED thrown
       ELSE /\ thrown' = Upd(thrown, c, VisitError(outcome, retryCount[c]))
            /\ pc' = Upd(pc, c, "caught")
            /\ UNCHANGED result
    /\ lastFetch' = Upd(lastFetch, c, NoFetch)
    /\ UNCHANGED <<CONFIG, proxyMode, poolVars, stack, fetchFor, requests, allZero, unit, retryCount,
                   currentProxy, sleeps, onlyRetryable, runVars, handed>>

\* lines 841-845: classification of the failure
isRateLimit(error) == Includes(error, <<4, 2, 9>>)
isServerError(error) == Includes(error, <<5>>)
isTimeout(error) == error.name = "TimeoutError"

\* variant: one retry too many (<= for <)
ShouldRetryOffByOne(error, n) ==
    (isRateLimit(error) \/ isServerError(error) \/ isTimeout(error))
    /\ n <= CONFIG.maxRetries

ShouldRetry(error, n) ==
    (isRateLimit(error) \/ isServerError(error) \/ isTimeout(error))
    /\ n < CONFIG.maxRetries

\* variant: the schedule indexed by the number of the next attempt
BackoffDelayNextIndex(n) ==
    IF n + 2 \in DOMAIN CONFIG.backoffDelays THEN CONFIG.backoffDelays[n + 2]
    ELSE Absent

\* CONFIG.backoffDelays[retryCount]; undefined when out of range
BackoffDelay(n) ==
    IF n + 1 \in DOMAIN CONFIG.backoffDelays THEN CONFIG.backoffDelays[n + 1]
    ELSE Absent

\* the failure kinds the specification calls retryable, as raised by the
\* visit: rate limit (429), server-side fault (5xx), navigation timeout
RetryableFault(error) ==
    \/ error.text \in {"HTTP", "HTTP - Retry available"}
         /\ (error.http = 429 \/ error.http \in 500..599)
    \/ error.name = "TimeoutError"

\* variant: a failure that is not retried is thrown on to the caller, whose
\* loop has no handler, so the run ends there
CatchBlockRethrows(c) ==
    /\ pc[c] = "caught"
    /\ onlyRetryable' = Upd(onlyRetryable, c, onlyRetryable[c] /\ RetryableFault(thrown[c]))
    /\ IF ShouldRetry(thrown[c], retryCount[c])
       THEN /\ sleeps' = Upd(sleeps, c, Append(sleeps[c], BackoffDelay(retryCount[c])))
            /\ pc' = Upd(pc, c, "sleep")
            /\ UNCHANGED <<result, thrown>>
       ELSE /\ pc' = Upd(pc, c, "done")
            /\ UNCHANGED <<result, thrown, sleeps>>
    /\ UNCHANGED <<CONFIG, proxyMode, poolVars, fetchVars, unit, retryCount,
                   currentProxy, proxyServer, visits, runVars, handed>>

\* lines 835-860: the catch block
CatchBlock(c) ==
    /\ pc[c] = "caught"
    /\ onlyRetryable' = Upd(onlyRetryable, c, onlyRetryable[c] /\ RetryableFault(thrown[c]))
    /\ IF ShouldRetry(thrown[c], retryCount[c])
       THEN /\ sleeps' = Upd(sleeps, c, Append(sleeps[c], BackoffDelay(retryCount[c])))
            /\ pc' = Upd(pc, c, "sleep")
            /\ UNCHANGED <<result, thrown>>
       ELSE /\ result' = Upd(result, c,
                   [success |-> FALSE, status |-> MatchHttpStatus(thrown[c]),
                    error |-> thrown[c]])
            /\ thrown' = Upd(thrown, c, NoError)
            /\ pc' = Upd(pc, c, "return")
            /\ UNCHANGED sleeps
    /\ UNCHANGED <<CONFIG, proxyMode, poolVars, fetchVars, unit, retryCount,
                   currentProxy, proxyServer, visits, runVars, handed>>

\* lines 849-850: the timer fires, scrapeWithRetry(url, retryCount + 1)
Retry(c) ==
    /\ pc[c] = "sleep"
    /\ pc' = Upd(pc, c, "attempt")
    /\ retryCount' = Upd(retryCount, c, retryCount[c] + 1)
    /\ currentProxy' = Upd(currentProxy, c, NoProxy)
    /\ proxyServer' = Upd(proxyServer, c, NoStr)
    /\ thrown' = Upd(thrown, c, NoError)
    /\ UNCHANGED <<CONFIG, proxyMode, poolVars, fetchVars, unit, result, sleeps,
                   visits, onlyRetryable, runVars, handed>>

(* ---------------- runSequentialScraping (src lines 1011-1088) ----------- *)
\* results.total++ ; successful++ or failed++ (lines 1056-1063, 943-950)
Fold(stats, success) ==
    [successful |-> stats.successful + (IF success THEN 1 ELSE 0),
     failed |-> stats.failed + (IF success THEN 0 ELSE 1),
     total |-> stats.total + 1]

\* scrapeWithRetry(url) is entered with retryCount = 0 for request number u
BeginUnit(c, u) ==
    /\ pc' = Upd(pc, c, "attempt")
    /\ unit' = Upd(unit, c, u)
    /\ retryCount' = Upd(retryCount, c, 0)
    /\ currentProxy' = Upd(currentProxy, c, NoProxy)
    /\ proxyServer' = Upd(proxyServer, c, NoStr)
    /\ thrown' = Upd(thrown, c, NoError)
    /\ result' = Upd(result, c, NoResult)
    /\ sleeps' = Upd(sleeps, c, <<>>)
    /\ visits' = Upd(visits, c, 0)
    /\ onlyRetryable' = Upd(onlyRetryable, c, TRUE)

\* lines 1052-1054: first iteration of the for loop
SeqFirst ==
    /\ pc[Main] = "dispatch" /\ CONFIG.maxConcurrent <= 1
    /\ BeginUnit(Main, 1)
    /\ lastFetch' = Upd(lastFetch, Main, NoFetch)
    /\ UNCHANGED <<CONFIG, proxyMode, poolVars, stack, fetchFor, requests, allZero, runVars, handed>>

\* lines 1056-1070: fold the result, then pause or leave the loop
SeqFold ==
    /\ pc[Main] = "return" /\ CONFIG.maxConcurrent <= 1
    /\ results' = Fold(results, result[Main].success)
    /\ pc' = Upd(pc, Main, IF unit[Main] - 1 < CONFIG.totalRequests - 1
                           THEN "pause" ELSE "done")
    /\ pauses' = pauses + (IF unit[Main] - 1 < CONFIG.totalRequests - 1 THEN 1 ELSE 0)
    /\ UNCHANGED batchSizes
    /\ UNCHANGED <<CONFIG, proxyMode, poolVars, fetchVars, unitVars, batch, inbox,
                   settled, recorded, produced, handed>>

\* variant: the loop does not await scrapeWithRetry and goes on to the next
\* request while the current one sleeps before a retry
SeqNextEarly ==
    /\ pc[Main] \in {"pause", "sleep"} /\ CONFIG.maxConcurrent <= 1
    /\ unit[Main] < CONFIG.totalRequests
    /\ BeginUnit(Main, unit[Main] + 1)
    /\ UNCHANGED <<CONFIG, proxyMode, poolVars, fetchVars, runVars, handed>>

\* the pause timer fires: next iteration
SeqNext ==
    /\ pc[Main] = "pause" /\ CONFIG.maxConcurrent <= 1
    /\ BeginUnit(Main, unit[Main] + 1)
    /\ UNCHANGED <<CONFIG, proxyMode, poolVars, fetchVars, runVars, handed>>

(* ---------------- runConcurrentScraping (src lines 883-1008) ------------ *)
\* variant: Math.floor(a / b)
CeilAsFloor(a, b) == a \div b

\* Math.ceil(a / b) for positive integers
Ceil(a, b) == IF a % b = 0 THEN a \div b ELSE (a \div b) + 1

NumBatches == Ceil(CONFIG.totalRequests, CONFIG.maxConcurrent)

\* workerIds created by the inner loop (lines 930-932) for batch b
BatchUnits(b) ==
    {b * CONFIG.maxConcurrent + i + 1 : i \in
        {j \in 0..(CONFIG.maxConcurrent - 1) :
            b * CONFIG.maxConcurrent + j < CONFIG.totalRequests}}

\* variant: Promise.race(batchPromises)
BatchSettledAny(b) == \E w \in BatchUnits(b) : w \in settled

\* line 973: Promise.allSettled(batchPromises)
BatchSettled(b) == \A w \in BatchUnits(b) : w \in settled

\* lines 927-970: one pass of the outer loop creates the workers of a batch;
\* each worker thread evaluates the file afresh and enters scrapeWithRetry
LaunchBatch ==
    /\ pc[Main] = "dispatch" /\ CONFIG.maxConcurrent > 1
    /\ batch < NumBatches
    /\ pc' = [c \in Threads |->
                IF c = Main THEN "await"
                ELSE IF c \in BatchUnits(batch) THEN "attempt" ELSE pc[c]]
    /\ unit' = [c \in Threads |-> IF c \in BatchUnits(batch) THEN c ELSE unit[c]]
    /\ batchSizes' = Append(batchSizes, Cardinality(BatchUnits(batch)))
    /\ lastFetch' = Upd(lastFetch, Main, NoFetch)
    /\ UNCHANGED <<CONFIG, proxyMode, poolVars, stack, fetchFor, requests, allZero, retryCount, currentProxy, proxyServer,
                   thrown, result, sleeps, visits, onlyRetryable, results, batch,
                   inbox, settled, recorded, produced, pauses, handed>>

\* the thread of worker w ends: its module-level state and its locals go
ThreadEnds(w) ==
    /\ pc' = Upd(pc, w, "exited")
    /\ proxiflyProxies' = Upd(proxiflyProxies, w, <<>>)
    /\ proxiflyCurrentIndex' = Upd(proxiflyCurrentIndex, w, 0)
    /\ freeProxyList' = Upd(freeProxyList, w, <<>>)
    /\ freeProxyIndex' = Upd(freeProxyIndex, w, 0)
    /\ usedProxies' = Upd(usedProxies, w, {})
    /\ proxyFetchAttempts' = Upd(proxyFetchAttempts, w, 0)
    /\ currentSourceIndex' = Upd(currentSourceIndex, w, 0)
    /\ currentProxy' = Upd(currentProxy, w, NoProxy)
    /\ proxyServer' = Upd(proxyServer, w, NoStr)
    /\ stack' = Upd(stack, w, <<>>)
    /\ fetchFor' = Upd(fetchFor, w, "none")
    /\ requests' = Upd(requests, w, 0)
    /\ allZero' = Upd(allZero, w, TRUE)
    /\ lastFetch' = Upd(lastFetch, w, NoFetch)
    /\ retryCount' = Upd(retryCount, w, 0)
    /\ thrown' = Upd(thrown, w, NoError)
    /\ result' = Upd(result, w, NoResult)
    /\ sleeps' = Upd(sleeps, w, <<>>)
    /\ visits' = Upd(visits, w, 0)
    /\ onlyRetryable' = Upd(onlyRetryable, w, TRUE)

\* a worker thread that has been started and has not ended
Running(w) == w # Main /\ pc[w] \notin {"off", "exited", "crashed"}

\* lines 864-871: the worker posts its result and its thread ends
WorkerPost(w) ==
    /\ w # Main /\ pc[w] = "return"
    /\ inbox' = inbox \cup {[kind |-> "message", workerId |-> w,
                             success |-> result[w].success]}
    /\ produced' = Upd(produced, w, IF result[w].success THEN "success" ELSE "failed")
    /\ ThreadEnds(w)
    /\ UNCHANGED <<CONFIG, proxyMode, unit, results, batch, settled, recorded,
                   pauses, batchSizes, handed>>

\* an exception escapes the worker thread: the Worker object emits 'error'
WorkerError(w) ==
    /\ Running(w)
    /\ inbox' = inbox \cup {[kind |-> "error", workerId |-> w, success |-> FALSE]}
    /\ produced' = Upd(produced, w, "error")
    /\ ThreadEnds(w)
    /\ UNCHANGED <<CONFIG, proxyMode, unit, results, batch, settled, recorded,
                   pauses, batchSizes, handed>>

\* the worker thread ends before it has posted a message; the 'exit'
\* handler (lines 961-965) logs and changes nothing
WorkerExit(w) ==
    /\ Running(w)
    /\ produced' = Upd(produced, w, "exit")
    /\ ThreadEnds(w)
    /\ UNCHANGED <<CONFIG, proxyMode, unit, results, batch, inbox, settled, recorded,
                   pauses, batchSizes, handed>>

\* lines 864-880 with 954-959: the worker's thread is not ended by its post;
\* an exception that escapes it afterwards (a rejection or a callback left
\* behind by the browser) makes the Worker object emit 'error' as well
WorkerLateError(w) ==
    /\ w # Main /\ pc[w] = "exited" /\ produced[w] \in {"success", "failed"}
    /\ pc' = Upd(pc, w, "crashed")
    /\ inbox' = inbox \cup {[kind |-> "error", workerId |-> w, success |-> FALSE]}
    /\ UNCHANGED <<CONFIG, proxyMode, poolVars, fetchVars, unitVars, results, batch,
                   settled, recorded, produced, pauses, batchSizes, handed>>

\* lines 973-996: once the last promise of the batch is settled the main
\* function continues without returning to the event loop, and after the
\* cleanup (lines 984-991) the workers are terminated: no handler runs then
HandlersRun ==
    /\ pc[Main] # "done"
    /\ ~(pc[Main] = "await" /\ BatchSettled(batch))

\* variant: a failure message settles every promise of the batch as failed
OnMessageFailBatch(m) ==
    /\ m \in inbox /\ m.kind = "message" /\ HandlersRun
    /\ inbox' = inbox \ {m}
    /\ results' = Fold(results, m.success)
    /\ settled' = settled \cup
           (IF m.success THEN {m.workerId} ELSE BatchUnits(batch))
    /\ recorded' = [w \in Threads |->
           IF w = m.workerId THEN (IF m.success THEN "success" ELSE "failed")
           ELSE IF ~m.success /\ w \in BatchUnits(batch) /\ recorded[w] = "none"
           THEN "failed" ELSE recorded[w]]
    /\ UNCHANGED <<CONFIG, proxyMode, poolVars, pc, fetchVars, unitVars, batch,
                   produced, pauses, batchSizes, handed>>

\* lines 942-952: worker.on('message')
OnMessage(m) ==
    /\ m \in inbox /\ m.kind = "message" /\ HandlersRun
    /\ inbox' = inbox \ {m}
    /\ results' = Fold(results, m.success)
    /\ settled' = settled \cup {m.workerId}
    /\ recorded' = IF m.workerId \in settled THEN recorded
                   ELSE Upd(recorded, m.workerId,
                            IF m.success THEN "success" ELSE "failed")
    /\ UNCHANGED <<CONFIG, proxyMode, poolVars, pc, fetchVars, unitVars, batch,
                   produced, pauses, batchSizes, handed>>

\* variant: the error handler forgets results.total++
OnErrorNoTotal(m) ==
    /\ m \in inbox /\ m.kind = "error" /\ HandlersRun
    /\ inbox' = inbox \ {m}
    /\ results' = [results EXCEPT !.failed = @ + 1]
    /\ settled' = settled \cup {m.workerId}
    /\ recorded' = IF m.workerId \in settled THEN recorded
                   ELSE Upd(recorded, m.workerId, "failed")
    /\ UNCHANGED <<CONFIG, proxyMode, poolVars, pc, fetchVars, unitVars, batch,
                   produced, pauses, batchSizes, handed>>

\* lines 954-959: worker.on('error')
OnError(m) ==
    /\ m \in inbox /\ m.kind = "error" /\ HandlersRun
    /\ inbox' = inbox \ {m}
    /\ results' = [results EXCEPT !.total = @ + 1, !.failed = @ + 1]
    /\ settled' = settled \cup {m.workerId}
    /\ recorded' = IF m.workerId \in settled THEN recorded
                   ELSE Upd(recorded, m.workerId, "failed")
    /\ UNCHANGED <<CONFIG, proxyMode, poolVars, pc, fetchVars, unitVars, batch,
                   produced, pauses, batchSizes, handed>>

\* variant: the pause is taken after every batch, the last one included
BatchDoneAlwaysPause ==
    /\ pc[Main] = "await" /\ BatchSettled(batch)
    /\ pc' = Upd(pc, Main, "pause")
    /\ pauses' = pauses + 1
    /\ UNCHANGED batch
    /\ UNCHANGED <<CONFIG, proxyMode, poolVars, fetchVars, unitVars, results, inbox,
                   settled, recorded, produced, batchSizes, handed>>

\* lines 973-981: the batch is settled; pause unless it was the last one
BatchDone ==
    /\ pc[Main] = "await" /\ BatchSettled(batch)
    /\ IF batch < NumBatches - 1
       THEN /\ pc' = Upd(pc, Main, "pause")
            /\ pauses' = pauses + 1
            /\ UNCHANGED batch
       ELSE /\ pc' = Upd(pc, Main, "done")
            /\ batch' = batch + 1
            /\ UNCHANGED pauses
    /\ UNCHANGED <<CONFIG, proxyMode, poolVars, fetchVars, unitVars, results, inbox,
                   settled, recorded, produced, batchSizes, handed>>

\* the pause timer fires: batch++
NextBatch ==
    /\ pc[Main] = "pause" /\ CONFIG.maxConcurrent > 1
    /\ batch' = batch + 1
    /\ pc' = Upd(pc, Main, "dispatch")
    /\ UNCHANGED <<CONFIG, proxyMode, poolVars, fetchVars, unitVars, results, inbox,
                   settled, recorded, produced, pauses, batchSizes, handed>>

(* ---------------- the program (src lines 1091-1101) --------------------- *)
\* CONFIG.backoffDelays as configured (line 38), cut to the schedule length
ConfiguredDelays == <<1000, 3000, 5000, 9000, 15000>>

Schedule(len) == SubSeq(ConfiguredDelays, 1, len)

\* CONFIG.freeProxyList.sources (src lines 84-95): an entry is modelled by
\* its priority field; its url is its position in the list.
DefaultSources == <<[priority |-> 1], [priority |-> 2]>>

\* the same two entries, listed in either order
SourceLists == {DefaultSources, <<[priority |-> 2], [priority |-> 1]>>}

ConfigsUpTo(retries, concurrent, total) ==
    {cfg \in [maxRetries : 0..retries,
              backoffDelays : {Schedule(len) : len \in 0..retries},
              maxConcurrent : 1..concurrent,
              totalRequests : 1..total,
              proxyMode : {"none", "direct", "proxifly", "free-proxy-list"},
              apiKey : BOOLEAN, rotateProxies : BOOLEAN,
              sources : {DefaultSources}] :
        /\ (cfg.proxyMode # "proxifly" => cfg.apiKey)
        /\ (~Pooled(cfg.proxyMode) => cfg.rotateProxies)
        /\ Len(cfg.backoffDelays) \in {cfg.maxRetries - 1, cfg.maxRetries}}

Configs == ConfigsUpTo(RunMaxRetries, MaxConc, MaxTotal)

Init ==
    /\ CONFIG \in Configs
    /\ proxyMode = [c \in Threads |-> CONFIG.proxyMode]
    /\ FreshGlobals /\ FreshControl
    /\ pc = [c \in Threads |-> IF c = Main THEN "startup" ELSE "off"]

Next ==
    \/ StartupFetch(Main)
    \/ SeqFirst \/ SeqFold \/ SeqNext
    \/ LaunchBatch \/ BatchDone \/ NextBatch
    \/ \E m \in inbox : OnMessage(m)
    \/ \E m \in inbox : OnError(m)
    \/ \E w \in Threads \ {Main} : WorkerPost(w)
    \/ \E w \in Threads \ {Main} : WorkerError(w)
    \/ \E w \in Threads \ {Main} : WorkerExit(w)
    \/ \E c \in Threads :
         \/ GetNextFreeProxy(c)
         \/ GetNextProxiflyProxy(c)
         \/ \E resp \in RunListResponses : FreeFetchStep(c, resp)
         \/ \E resp \in RunApiResponses : ProxiflyFetchStep(c, resp)
         \/ \E outcome \in RunOutcomes : Visit(c, outcome)
         \/ CatchBlock(c)
         \/ Retry(c)

Spec == Init /\ [][Next]_vars

(* ---------------- the sequential program, every answer explored --------- *)
SeqConfigs == ConfigsUpTo(MaxRetriesBound, 1, SeqMaxTotal)

InitSeq ==
    /\ CONFIG \in SeqConfigs
    /\ proxyMode = [c \in Threads |-> CONFIG.proxyMode]
    /\ FreshGlobals /\ FreshControl
    /\ pc = [c \in Threads |-> IF c = Main THEN "startup" ELSE "off"]

NextSeq ==
    \/ StartupFetch(Main)
    \/ SeqFirst \/ SeqFold \/ SeqNext
    \/ GetNextFreeProxy(Main)
    \/ GetNextProxiflyProxy(Main)
    \/ \E resp \in SeqListResponses : FreeFetchStep(Main, resp)
    \/ \E resp \in SeqApiResponses : ProxiflyFetchStep(Main, resp)
    \/ \E outcome \in Outcomes : Visit(Main, outcome)
    \/ CatchBlock(Main)
    \/ Retry(Main)

SpecSeq == InitSeq /\ [][NextSeq]_vars

(* ---------------- one call of scrapeWithRetry --------------------------- *)
\* The startup fetch, then scrapeWithRetry(url) called once by the loop of
\* runSequentialScraping, against every provider answer and visit outcome.
UnitConfigs == ConfigsUpTo(MaxRetriesBound, 1, 1)

InitUnit ==
    /\ CONFIG \in UnitConfigs
    /\ proxyMode = [c \in Threads |-> CONFIG.proxyMode]
    /\ FreshGlobals /\ FreshControl
    /\ pc = [c \in Threads |-> IF c = Main THEN "startup" ELSE "off"]

NextUnit ==
    \/ StartupFetch(Main)
    \/ SeqFirst
    \/ GetNextFreeProxy(Main)
    \/ GetNextProxiflyProxy(Main)
    \/ \E resp \in SeqListResponses : FreeFetchStep(Main, resp)
    \/ \E resp \in SeqApiResponses : ProxiflyFetchStep(Main, resp)
    \/ \E outcome \in Outcomes : Visit(Main, outcome)
    \/ CatchBlock(Main)
    \/ Retry(Main)

SpecUnit == InitUnit /\ [][NextUnit]_vars

(* ---------------- the pool manager driven on its own -------------------- *)
\* One thread, as in a sequential run: an optional startup fetch, then an
\* arbitrary sequence of getNext calls against arbitrary provider answers.
PoolConfigs ==
    [maxRetries : {0}, backoffDelays : {<<>>}, maxConcurrent : {1},
     totalRequests : {MaxCalls},
     proxyMode : {"proxifly", "free-proxy-list"},
     apiKey : {TRUE}, rotateProxies : BOOLEAN, sources : {DefaultSources}]

InitPool ==
    /\ CONFIG \in PoolConfigs
    /\ proxyMode = [c \in Threads |-> CONFIG.proxyMode]
    /\ FreshGlobals /\ FreshControl
    /\ pc = [c \in Threads |-> IF c = Main THEN "startup" ELSE "off"]

\* the caller takes the record (or the exception) and calls again
PoolDrive(c) ==
    /\ pc[c] \in {"dispatch", "visit", "caught"}
    /\ unit[c] < CONFIG.totalRequests
    /\ pc' = Upd(pc, c, "attempt")
    /\ unit' = Upd(unit, c, unit[c] + 1)
    /\ currentProxy' = Upd(currentProxy, c, NoProxy)
    /\ proxyServer' = Upd(proxyServer, c, NoStr)
    /\ thrown' = Upd(thrown, c, NoError)
    /\ lastFetch' = Upd(lastFetch, c, NoFetch)
    /\ UNCHANGED <<CONFIG, proxyMode, poolVars, stack, fetchFor, requests, allZero, retryCount, result,
                   sleeps, visits, onlyRetryable, runVars, handed>>

NextPool ==
    \/ StartupFetch(Main)
    \/ PoolDrive(Main)
    \/ GetNextFreeProxy(Main)
    \/ GetNextProxiflyProxy(Main)
    \/ \E resp \in ListResponses : FreeFetchStep(Main, resp)
    \/ \E resp \in ApiResponses : ProxiflyFetchStep(Main, resp)

SpecPool == InitPool /\ [][NextPool]_vars

(* ---------------- the pool manager, a few calls ------------------------- *)
\* As above with fewer getNext calls: enough to install a pool at startup,
\* use it up and fetch again.
TakeConfigs ==
    {cfg \in [maxRetries : {0}, backoffDelays : {<<>>}, maxConcurrent : {1},
              totalRequests : {TakeCalls},
              proxyMode : {"proxifly", "free-proxy-list"},
              apiKey : {TRUE}, rotateProxies : BOOLEAN, sources : SourceLists] :
        cfg.proxyMode = "proxifly" => cfg.sources = DefaultSources}

InitTake ==
    /\ CONFIG \in TakeConfigs
    /\ proxyMode = [c \in Threads |-> CONFIG.proxyMode]
    /\ FreshGlobals /\ FreshControl
    /\ pc = [c \in Threads |-> IF c = Main THEN "startup" ELSE "off"]

SpecTake == InitTake /\ [][NextPool]_vars

(* ---------------- getProxyId on the records of one API answer --------- *)
\* The API answers the startup fetch with IdCalls records, each in either
\* shape (combined ipPort, or separate ip and port) and with its own
\* metadata; getNextProxiflyProxy then hands them out in order, registering
\* getProxyId of each (src lines 365-367).
IdPorts == {8080, 3128}

\* CONFIG.proxifly.quantity: records in one answer, compared two at a time
IdCalls == 2

IdRecords ==
    {r \in [ipPort : {NoStr} \cup {HostPort(h, p) : h \in 1..NumIds, p \in IdPorts},
            ip : {Absent} \cup 1..NumIds, port : {Absent} \cup IdPorts,
            source : {Absent, 1}, protocol : {"http", "socks5"}] :
        /\ (r.ipPort # NoStr) <=> (r.ip = Absent)
        /\ (r.ip = Absent) <=> (r.port = Absent)
        /\ (r.source = Absent) <=> (r.protocol = "http")}

IdResponses == [kind : {"array"}, items : [1..IdCalls -> IdRecords]]

IdConfigs ==
    [maxRetries : {0}, backoffDelays : {<<>>}, maxConcurrent : {1},
     totalRequests : {IdCalls}, proxyMode : {"proxifly"},
     apiKey : {TRUE}, rotateProxies : {TRUE}, sources : {DefaultSources}]

InitId ==
    /\ CONFIG \in IdConfigs
    /\ proxyMode = [c \in Threads |-> CONFIG.proxyMode]
    /\ FreshGlobals /\ FreshControl
    /\ pc = [c \in Threads |-> IF c = Main THEN "startup" ELSE "off"]

NextId ==
    \/ StartupFetch(Main)
    \/ \E resp \in IdResponses : ProxiflyFetchStep(Main, resp)
    \/ PoolDrive(Main)
    \/ GetNextProxiflyProxy(Main)

SpecId == InitId /\ [][NextId]_vars

(* ---------------- the free lists with fixed contents -------------------- *)
\* CONFIG.freeProxyList.sources (src lines 84-95) where an entry is modelled
\* by its priority and by the lines its url serves, the same at every request
FixedSourceLists ==
    {[k \in 1..NumSources |-> [priority |-> k, served |-> content[k]]] :
        content \in [1..NumSources -> SeqsUpTo(Ids, MaxLen)]}

FixedConfigs ==
    [maxRetries : {0}, backoffDelays : {<<>>}, maxConcurrent : {1},
     totalRequests : {MaxCalls},
     proxyMode : {"free-proxy-list"},
     apiKey : {TRUE}, rotateProxies : BOOLEAN, sources : FixedSourceLists]

InitFixed ==
    /\ CONFIG \in FixedConfigs
    /\ proxyMode = [c \in Threads |-> CONFIG.proxyMode]
    /\ FreshGlobals /\ FreshControl
    /\ pc = [c \in Threads |-> IF c = Main THEN "startup" ELSE "off"]

\* fetchFromUrl(source.url) (line 165) answers with the lines of the source
FixedFetchStep(c) ==
    /\ pc[c] = "fetch" /\ stack[c] # <<>>
    /\ LET sourceIndex == stack[c][Len(stack[c])].sourceIndex
       IN  FreeFetchStep(c, [kind |-> "lines",
                             lines |-> CONFIG.sources[sourceIndex + 1].served])

NextFixed ==
    \/ StartupFetch(Main)
    \/ PoolDrive(Main)
    \/ GetNextFreeProxy(Main)
    \/ FixedFetchStep(Main)

SpecFixed == InitFixed /\ [][NextFixed]_vars

(* ---------------- concurrent runs with late worker failures ------------- *)
LateConfigs ==
    {cfg \in Configs : ~Pooled(cfg.proxyMode) /\ cfg.maxConcurrent > 1}

InitLate ==
    /\ CONFIG \in LateConfigs
    /\ proxyMode = [c \in Threads |-> CONFIG.proxyMode]
    /\ FreshGlobals /\ FreshControl
    /\ pc = [c \in Threads |-> IF c = Main THEN "startup" ELSE "off"]

NextLate ==
    \/ StartupFetch(Main)
    \/ LaunchBatch \/ BatchDone \/ NextBatch
    \/ \E m \in inbox : OnMessage(m)
    \/ \E m \in inbox : OnError(m)
    \/ \E w \in Threads \ {Main} :
         \/ WorkerPost(w)
         \/ WorkerError(w)
         \/ WorkerExit(w)
         \/ WorkerLateError(w)
         \/ \E outcome \in RunOutcomes : Visit(w, outcome)
         \/ CatchBlock(w)
         \/ Retry(w)

SpecLate == InitLate /\ [][NextLate]_vars

(* ---------------- claims on the pool manager ---------------------------- *)
SameProcess(a, b) == a.thread = b.thread

\* C1: within one process no two records returned by getNextFreeProxy /
\* getNextProxiflyProxy have the same identity.
C1_NoRepeatInProcess ==
    \A a \in handed, b \in handed :
        (a # b /\ SameProcess(a, b)) => getProxyId(a.proxy) # getProxyId(b.proxy)

\* C2: in a concurrent run in a pooled mode no two attempts of the run,
\* in the same or in different workers, are handed the same proxy identity.
C2_NoRepeatAcrossWorkers ==
    (CONFIG.maxConcurrent > 1 /\ Pooled(CONFIG.proxyMode)) =>
        \A a \in handed, b \in handed :
            a # b => getProxyId(a.proxy) # getProxyId(b.proxy)

\* the call of getNextFreeProxy / getNextProxiflyProxy by c has failed
FailedInGetNext(c) ==
    /\ pc[c] = "caught"
    /\ thrown[c].text \in {UnableToFetch.text, "Failed to fetch new proxies"}

\* C3: if every fetch made for a call yields zero unused candidates, the
\* call fails with the exhaustion error after exactly MAX_FETCH_ATTEMPTS
\* fetch attempts, not fewer and not more.
C3_ExhaustionBound ==
    \A c \in Threads :
        (FailedInGetNext(c) /\ requests[c] > 0 /\ allZero[c]) =>
            /\ thrown[c].text = UnableToFetch.text
            /\ requests[c] = MAX_FETCH_ATTEMPTS

(* ---------------- claims on scrapeWithRetry ----------------------------- *)
\* C4: a unit whose every attempt fails with a retryable kind ends in
\* terminal failure after exactly maxRetries retries, the k-th retry
\* preceded by a sleep of backoffDelays[k-1], in that order.
C4_BackoffFidelity ==
    \A c \in Threads :
        (/\ pc[c] = "return" /\ ~result[c].success
         /\ onlyRetryable[c]
         /\ Len(CONFIG.backoffDelays) = CONFIG.maxRetries) =>
            /\ sleeps[c] = CONFIG.backoffDelays
            /\ retryCount[c] = CONFIG.maxRetries
            /\ visits[c] = CONFIG.maxRetries + 1

C4_Witness ==
    /\ pc[Main] = "return" /\ ~result[Main].success /\ onlyRetryable[Main]
    /\ CONFIG.maxRetries = 2
    /\ sleeps[Main] = <<1000, 3000>>

\* C5 as stated: attempt n is followed by attempt n+1 only if
\* n+1 < maxRetries, so the executor runs at most maxRetries times per unit.
C5_Original ==
    CONFIG.maxRetries >= 1 =>
        \A c \in Threads :
            /\ (retryCount[c] > 0 => retryCount[c] < CONFIG.maxRetries)
            /\ visits[c] <= CONFIG.maxRetries

\* C5 amended: attempt n is followed by attempt n+1 only if n < maxRetries
\* (a failure at n = maxRetries is terminal), so the executor runs at most
\* maxRetries + 1 times per unit.
C5_AttemptBound ==
    \A c \in Threads :
        /\ retryCount[c] <= CONFIG.maxRetries
        /\ (pc[c] = "sleep" => retryCount[c] < CONFIG.maxRetries)
        /\ visits[c] <= CONFIG.maxRetries + 1
        /\ Len(sleeps[c]) <= CONFIG.maxRetries

C5_Witness ==
    /\ CONFIG.maxRetries = 2 /\ retryCount[Main] = 2 /\ visits[Main] = 3
    /\ pc[Main] = "return" /\ ~result[Main].success

\* the kinds C6 and C7 name: HTTP 429, HTTP status >= 500, timeout
NamedRetryable(error) ==
    \/ error.text \in {"HTTP", "HTTP - Retry available"}
         /\ (error.http = 429 \/ error.http >= 500)
    \/ error.name = "TimeoutError"

\* C6: a failure of any other kind is terminal at once: no backoff sleep
\* and no further attempt ever follows it.
C6_OtherKindsTerminal ==
    \A c \in Threads : pc[c] = "sleep" => NamedRetryable(thrown[c])

\* C7: a 429, a status >= 500 or a timeout at retryCount < maxRetries is
\* never the terminal failure of the unit (it is retried after the sleep).
C7_RetryableRetried ==
    \A c \in Threads :
        (pc[c] = "return" /\ ~result[c].success /\ NamedRetryable(result[c].error))
            => retryCount[c] >= CONFIG.maxRetries

\* C8: in a pooled mode an attempt about to launch the browser holds a
\* proxy handed out for that very attempt, and the proxies handed to the
\* attempts of one unit have pairwise different identities.
C8_FreshProxyPerAttempt ==
    /\ \A c \in Threads :
         (Pooled(proxyMode[c]) /\ ReadyToLaunch(c)) =>
             /\ currentProxy[c] # NoProxy
             /\ [thread |-> c, unit |-> unit[c], attempt |-> retryCount[c],
                 proxy |-> currentProxy[c]] \in handed
    /\ \A a \in handed, b \in handed :
         (a.thread = b.thread /\ a.unit = b.unit /\ a.attempt # b.attempt)
             => getProxyId(a.proxy) # getProxyId(b.proxy)

(* ---------------- claims on runConcurrentScraping ----------------------- *)
RECURSIVE Sum(_)
Sum(seq) == IF seq = <<>> THEN 0 ELSE seq[1] + Sum(Tail(seq))

\* the least number of groups of at most size that hold count items
GroupsNeeded(count, size) ==
    CHOOSE k \in 1..count : k * size >= count /\ (k - 1) * size < count

\* C9: runConcurrentScraping creates ceil(totalRequests / maxConcurrent)
\* batches; all but the last hold maxConcurrent workers, the last holds the
\* remainder (1..maxConcurrent), and the sizes add up to totalRequests.
C9_BatchSizing ==
    CONFIG.maxConcurrent > 1 =>
        LET size == CONFIG.maxConcurrent
            total == CONFIG.totalRequests
            B == GroupsNeeded(total, size)
        IN  /\ Len(batchSizes) <= B
            /\ \A k \in 1..Len(batchSizes) :
                 /\ batchSizes[k] = IF k < B THEN size ELSE total - size * (B - 1)
                 /\ batchSizes[k] \in 1..size
            /\ pc[Main] = "done" => (Len(batchSizes) = B /\ Sum(batchSizes) = total)

C9_Witness ==
    /\ pc[Main] = "done" /\ CONFIG.maxConcurrent = 2 /\ CONFIG.totalRequests = 3
    /\ batchSizes = <<2, 1>>

Launched(w) == pc[w] # "off"
Terminal(w) == pc[w] \in {"return", "exited"}
BatchOf(w) == (w - 1) \div CONFIG.maxConcurrent

\* C10: at most maxConcurrent launched units are short of a terminal state,
\* and a unit of a later batch is launched only when every unit of the
\* earlier batches is terminal.
C10_BoundedConcurrency ==
    CONFIG.maxConcurrent > 1 =>
        LET workers == Threads \ {Main} IN
        /\ Cardinality({w \in workers : Launched(w) /\ ~Terminal(w)})
               <= CONFIG.maxConcurrent
        /\ \A u \in workers, v \in workers :
             (Launched(v) /\ BatchOf(v) > BatchOf(u)) => Terminal(u)

C10_Witness ==
    /\ CONFIG.maxConcurrent = 2
    /\ Launched(3) /\ ~Terminal(3) /\ Terminal(1) /\ Terminal(2)

(* ---------------- claims on the worker events ---------------------------- *)
Workers == Threads \ {Main}

\* the outcome a worker thread that ended as `how` stands for
OutcomeOf(how) == IF how = "success" THEN "success"
                  ELSE IF how \in {"failed", "error"} THEN "failed"
                  ELSE "none"

\* C11: in a concurrent run the outcome recorded for a unit is the one its
\* own worker produced, whatever its siblings did, and the dispatcher leaves
\* the wait for a batch only when every launched unit has a recorded outcome.
C11_SiblingIsolation ==
    CONFIG.maxConcurrent > 1 =>
        /\ \A w \in Workers :
             recorded[w] # "none" => recorded[w] = OutcomeOf(produced[w])
        /\ pc[Main] \in {"pause", "dispatch", "done"} =>
             \A w \in Workers : Launched(w) => recorded[w] # "none"

C11_Witness ==
    /\ pc[Main] = "done"
    /\ \E a \in Workers, b \in Workers :
         /\ a # b /\ BatchOf(a) = BatchOf(b)
         /\ produced[a] \in {"failed", "error"} /\ recorded[a] = "failed"
         /\ produced[b] = "success" /\ recorded[b] = "success"

\* a worker thread has ended and none of its events is waiting for a handler
EndedAndHandled(w) ==
    pc[w] = "exited" /\ \A m \in inbox : m.workerId # w

\* C12: once a launched worker's thread has ended, by a result message, by
\* an error event or by an exit without a message, and its events have been
\* handled, the dispatcher has recorded a terminal outcome for the unit
\* (failed unless the worker reported success), so the batch can complete.
C12_EveryEndRecorded ==
    CONFIG.maxConcurrent > 1 =>
        \A w \in Workers :
            EndedAndHandled(w) =>
                /\ recorded[w] # "none"
                /\ produced[w] # "success" => recorded[w] = "failed"

\* C13 as stated: in a concurrent run the counters change only when every
\* unit of the current batch is terminal, never while a sibling still runs.
C13_Original ==
    [][(CONFIG.maxConcurrent > 1 /\ results' # results) =>
          \A w \in BatchUnits(batch) : Terminal(w)]_vars

\* C13 (amended): in a concurrent run the counters change only in a step of
\* the main thread that handles one event (result message or error event)
\* of one ended worker; the step moves no thread, records that unit, adds
\* one to total and one to successful (a success message) or to failed.
C13_CountedOnArrival ==
    [][(CONFIG.maxConcurrent > 1 /\ results' # results) =>
          \E m \in inbox :
             /\ inbox' = inbox \ {m} /\ pc' = pc
             /\ pc[m.workerId] = "exited" /\ produced[m.workerId] # "none"
             /\ recorded'[m.workerId] = OutcomeOf(produced[m.workerId])
             /\ results'.total = results.total + 1
             /\ results'.successful =
                    results.successful + (IF produced[m.workerId] = "success" THEN 1 ELSE 0)
             /\ results'.failed =
                    results.failed + (IF produced[m.workerId] = "success" THEN 0 ELSE 1)]_vars

\* a unit has been counted while a sibling of its batch is still running
C13_Witness ==
    /\ CONFIG.maxConcurrent > 1 /\ pc[Main] = "await"
    /\ \E a \in BatchUnits(batch), b \in BatchUnits(batch) :
         /\ a # b /\ recorded[a] # "none" /\ Running(b)
         /\ results.total = batch * CONFIG.maxConcurrent + 1

(* ---------------- claims on the sequential dispatcher -------------------- *)
\* C14: with maxConcurrent <= 1 no worker thread is ever started, and the
\* main thread enters request i+1 (at retry 0) only from the pause that
\* follows request i, when scrapeWithRetry has returned the terminal result
\* of request i and that result has been counted.
C14_StrictlySequential ==
    [][CONFIG.maxConcurrent <= 1 =>
          /\ \A w \in Workers : pc'[w] = "off"
          /\ unit'[Main] # unit[Main] =>
                /\ unit'[Main] = unit[Main] + 1 /\ retryCount'[Main] = 0
                /\ unit[Main] > 0 =>
                      /\ pc[Main] = "pause" /\ result[Main] # NoResult
                      /\ results.total = unit[Main]]_vars

C14_Witness ==
    /\ CONFIG.maxConcurrent <= 1 /\ CONFIG.maxRetries >= 1
    /\ unit[Main] = 2 /\ pc[Main] = "attempt" /\ retryCount[Main] = 1
    /\ results.total = 1

\* C15: the pause is slept once after every request (sequential run) or
\* batch (concurrent run) but the last: while request or batch number k is
\* under way k - 1 pauses have been slept, during the pause that follows it
\* k have, and a finished run of N requests has slept N - 1 times, one of B
\* batches B - 1 times.
C15_PausesBetween ==
    IF CONFIG.maxConcurrent <= 1
    THEN LET N == CONFIG.totalRequests IN
         /\ pauses <= N - 1
         /\ pc[Main] = "done" => pauses = N - 1
         /\ pc[Main] = "pause" => pauses = unit[Main]
         /\ (pc[Main] \notin {"pause", "done"} /\ unit[Main] > 0) =>
                pauses = unit[Main] - 1
    ELSE LET B == GroupsNeeded(CONFIG.totalRequests, CONFIG.maxConcurrent) IN
         /\ pauses <= B - 1
         /\ pc[Main] = "done" => pauses = B - 1
         /\ pc[Main] = "pause" => pauses = batch + 1
         /\ pc[Main] \notin {"pause", "done"} => pauses = batch

C15_Witness ==
    /\ pc[Main] = "done" /\ CONFIG.maxConcurrent = 2 /\ CONFIG.totalRequests = 3
    /\ pauses = 1 /\ results.total = 3

(* ---------------- claims on fetching and handing out --------------------- *)
IdsOf(list) == {getProxyId(list[k]) : k \in 1..Len(list)}

DistinctIds(list) == Cardinality(IdsOf(list)) = Len(list)

\* sub keeps elements of list in the order of list
InOrderOf(sub, list) ==
    \E f \in [1..Len(sub) -> 1..Len(list)] :
        /\ \A k \in 1..Len(sub) : sub[k] = list[f[k]]
        /\ \A j \in 1..Len(sub), k \in 1..Len(sub) : j < k => f[j] < f[k]

\* C16: the pool a successful fetch installs holds no candidate whose
\* identity was registered at fetch time, keeps the provider's order, and
\* drops nothing else: of n candidates with distinct identities, m of them
\* registered, it holds n - m.
C16_FetchFiltersRegistered ==
    \A c \in Threads :
        LET raw == lastFetch[c].raw
            used == lastFetch[c].used
            pool == lastFetch[c].pool
        IN  lastFetch[c] # NoFetch =>
            /\ IdsOf(pool) \cap used = {}
            /\ InOrderOf(pool, raw)
            /\ IdsOf(pool) = IdsOf(raw) \ used
            /\ DistinctIds(raw) =>
                 Len(pool) = Len(raw) - Cardinality(IdsOf(raw) \cap used)

\* a fetch of two distinct candidates, one of them registered, installed one
C16_Witness ==
    \E c \in Threads :
        /\ Len(lastFetch[c].raw) = 2 /\ DistinctIds(lastFetch[c].raw)
        /\ Cardinality(IdsOf(lastFetch[c].raw) \cap lastFetch[c].used) = 1
        /\ Len(lastFetch[c].pool) = 1

\* the pool and the cursor of the configured provider in process c
PoolOf(c) == IF CONFIG.proxyMode = "proxifly" THEN proxiflyProxies[c]
             ELSE freeProxyList[c]
CursorOf(c) == IF CONFIG.proxyMode = "proxifly" THEN proxiflyCurrentIndex[c]
               ELSE freeProxyIndex[c]

\* this step ends a getNext call of process c by returning a record
Returns(c) == pc[c] \in {"attempt", "fetch"} /\ pc'[c] = "visit"

\* this step installs a new pool in process c
Installs(c) == lastFetch[c] = NoFetch /\ lastFetch'[c] # NoFetch

\* C17: with rotateProxies = true a getNext call leaves the pool as it is
\* (or as just installed), moves the cursor by exactly one (to 1 on a new
\* pool) and returns the record under it; no other step moves the cursor
\* of a pool, so the records of a pool are returned in provider order, each
\* position at most once.
C17_SequentialRotation ==
    [][\A c \in Threads : (Pooled(CONFIG.proxyMode) /\ CONFIG.rotateProxies) =>
          IF Returns(c)
          THEN /\ PoolOf(c)' = IF Installs(c) THEN lastFetch'[c].pool ELSE PoolOf(c)
               /\ CursorOf(c)' = IF Installs(c) THEN 1 ELSE CursorOf(c) + 1
               /\ CursorOf(c)' <= Len(PoolOf(c)')
               /\ currentProxy'[c] = PoolOf(c)'[CursorOf(c)']
          ELSE IF Installs(c)
          THEN PoolOf(c)' = lastFetch'[c].pool /\ CursorOf(c)' = 0
          ELSE PoolOf(c)' = PoolOf(c) /\ CursorOf(c)' = CursorOf(c)]_vars

\* the second record of a pool of two has just been returned
C17_Witness ==
    /\ Pooled(CONFIG.proxyMode) /\ CONFIG.rotateProxies /\ pc[Main] = "visit"
    /\ Len(PoolOf(Main)) = 2 /\ CursorOf(Main) = 2
    /\ currentProxy[Main] = PoolOf(Main)[2]
    /\ \E h \in handed : h.unit = unit[Main] - 1 /\ h.proxy = PoolOf(Main)[1]

\* list without its element at position i
Without(list, i) ==
    [k \in 1..(Len(list) - 1) |-> IF k < i THEN list[k] ELSE list[k + 1]]

\* C18: with rotateProxies = false a getNext call returns the record at
\* some position of the pool (as it is, or as just installed) and leaves
\* the pool without that position, one shorter; no other step changes a
\* pool except the installation of a new one, so no position of a pool is
\* returned twice.
C18_RandomConsumption ==
    [][\A c \in Threads : (Pooled(CONFIG.proxyMode) /\ ~CONFIG.rotateProxies) =>
          IF Returns(c)
          THEN LET base == IF Installs(c) THEN lastFetch'[c].pool ELSE PoolOf(c)
               IN  /\ Len(PoolOf(c)') = Len(base) - 1
                   /\ \E i \in 1..Len(base) :
                        /\ currentProxy'[c] = base[i]
                        /\ PoolOf(c)' = Without(base, i)
          ELSE IF Installs(c)
          THEN PoolOf(c)' = lastFetch'[c].pool
          ELSE PoolOf(c)' = PoolOf(c)]_vars

\* the first call on a pool returned one record and left another one
C18_Witness ==
    /\ Pooled(CONFIG.proxyMode) /\ ~CONFIG.rotateProxies /\ pc[Main] = "visit"
    /\ unit[Main] = 1 /\ Len(PoolOf(Main)) = 1
    /\ getProxyId(currentProxy[Main]) # getProxyId(PoolOf(Main)[1])

\* identities of the records the getNext functions have returned in process c
HandedIds(c) == {getProxyId(h.proxy) : h \in {x \in handed : x.thread = c}}

\* C19: in every state the registry of a process holds exactly the
\* identities of the records its getNext functions have returned so far
\* (so it never shrinks and a fetch adds nothing), and a record the caller
\* holds is registered.
C19_RegistryIsHandedOut ==
    \A c \in Threads :
        /\ usedProxies[c] = HandedIds(c)
        /\ currentProxy[c] # NoProxy => getProxyId(currentProxy[c]) \in usedProxies[c]

\* a record returned, then a call whose fetch failed
C19_Witness ==
    /\ Cardinality(usedProxies[Main]) = 1 /\ Cardinality(HandedIds(Main)) = 1
    /\ requests[Main] >= 1 /\ pc[Main] = "caught"

(* ---------------- claims on the configuration ---------------------------- *)
ScheduleTooShort == Len(CONFIG.backoffDelays) < CONFIG.maxRetries

MissingApiKey == CONFIG.proxyMode = "proxifly" /\ ~CONFIG.apiKey

\* C20: with a backoff schedule shorter than maxRetries, or with proxifly
\* selected and no API key, no request is dispatched: no worker thread is
\* started and scrapeWithRetry is never entered.
C20_FailFast ==
    (ScheduleTooShort \/ MissingApiKey) =>
        /\ \A w \in Workers : pc[w] = "off"
        /\ \A c \in Threads : unit[c] = 0 /\ visits[c] = 0

(* ---------------- claims on failure handling ----------------------------- *)
\* requests of a sequential run whose result has been counted
SeqCounted ==
    IF pc[Main] \in {"pause", "done"} THEN unit[Main]
    ELSE IF unit[Main] > 0 THEN unit[Main] - 1 ELSE 0

\* C21: in a sequential run scrapeWithRetry ends by returning a result
\* (success, or failure carrying the error; no exception is left pending),
\* the run never stops short of its end, every request before the current
\* one has been counted once, a failed result adds one to failed and
\* nothing else, and a finished run has counted all totalRequests.
C21_FailureContained ==
    /\ [](CONFIG.maxConcurrent <= 1 =>
            /\ pc[Main] = "return" =>
                  /\ thrown[Main] = NoError
                  /\ result[Main].success <=> result[Main].error = NoError
            /\ pc[Main] # "done" => ENABLED NextSeq
            /\ results.total = SeqCounted
            /\ results.total = results.successful + results.failed
            /\ pc[Main] = "done" => results.total = CONFIG.totalRequests)
    /\ [][(CONFIG.maxConcurrent <= 1 /\ results' # results) =>
            /\ pc[Main] = "return"
            /\ results'.failed =
                   results.failed + (IF result[Main].success THEN 0 ELSE 1)
            /\ results'.successful =
                   results.successful + (IF result[Main].success THEN 1 ELSE 0)]_vars

\* request 1 failed, request 2 was still made and succeeded
C21_Witness ==
    /\ CONFIG.maxConcurrent <= 1 /\ CONFIG.totalRequests = 2 /\ pc[Main] = "done"
    /\ results.failed = 1 /\ results.successful = 1 /\ result[Main].success

\* the dispatcher's startup fetch of a pooled mode failed and it fell back
FellBack == Pooled(CONFIG.proxyMode) /\ proxyMode[Main] = "none"

\* C22: once the startup fetch of a pooled mode has failed, no thread asks
\* the pool manager for a proxy or waits for a proxy source, no attempt is
\* given a proxy, and a finished run has counted all totalRequests.
C22_FallbackToNoProxy ==
    FellBack =>
        /\ \A c \in Threads : pc[c] # "fetch" /\ currentProxy[c] = NoProxy
        /\ \A w \in Workers : requests[w] = 0 /\ proxyFetchAttempts[w] = 0
        /\ handed = {}
        /\ pc[Main] = "done" => results.total = CONFIG.totalRequests

\* the error of a getNext call that gave up after MAX_FETCH_ATTEMPTS
IsExhaustion(error) ==
    /\ error.text \in {"Unable to fetch new unique proxies", "Failed to fetch new proxies"}
    /\ error.nums = <<MAX_FETCH_ATTEMPTS>>

\* this step does not begin a backoff sleep after a pool exhaustion
ExhaustionNotRetried ==
    \A c \in Threads :
        (pc[c] = "caught" /\ pc'[c] = "sleep") => ~IsExhaustion(thrown[c])

\* a request that follows one failed by pool exhaustion runs without proxy
ExhaustionEscalated ==
    (unit'[Main] > unit[Main] /\ IsExhaustion(result[Main].error)) =>
        ~Pooled(proxyMode'[Main])

\* C23: a pool exhaustion raised by a getNext call is not retried with
\* backoff by scrapeWithRetry, and after a request has failed by pool
\* exhaustion the sequential run dispatches a further request only in
\* no-proxy mode.
C23_ExhaustionFatal ==
    [][ExhaustionNotRetried /\ ExhaustionEscalated]_vars


(* ---------------- claims on the end-of-run report ------------------------ *)
\* getProxyStats() as evaluated by process c (a read of c's own globals)
getProxyStats(c) ==
    IF proxyMode[c] = "proxifly"
    THEN [totalUsed |-> Cardinality(usedProxies[c]),
          remainingInPool |-> Len(proxiflyProxies[c]) - proxiflyCurrentIndex[c],
          currentPoolSize |-> Len(proxiflyProxies[c]),
          mode |-> "proxifly"]
    ELSE IF proxyMode[c] = "free-proxy-list"
    THEN [totalUsed |-> Cardinality(usedProxies[c]),
          remainingInPool |-> Len(freeProxyList[c]) - freeProxyIndex[c],
          currentPoolSize |-> Len(freeProxyList[c]),
          mode |-> "free-proxy-list"]
    ELSE [totalUsed |-> 0, remainingInPool |-> 0, currentPoolSize |-> 0,
          mode |-> proxyMode[c]]

\* the final report prints the proxy statistics (the run is over and the
\* dispatcher's mode is a pooled one)
ReportsStats == pc[Main] = "done" /\ Pooled(proxyMode[Main])

\* identities handed to attempts anywhere in the run
AllHandedIds == {getProxyId(h.proxy) : h \in handed}

\* C24: when the run ends in a pooled mode, the totalUsed that the
\* dispatcher reports equals the number of distinct proxy identities that
\* were handed to attempts during the run, in any process.
C24_ReportedTotalUsed ==
    ReportsStats => getProxyStats(Main).totalUsed = Cardinality(AllHandedIds)


(* ---------------- claims on the sources ---------------------------------- *)
\* the sources whose fetch has begun before the k-th activation of the
\* fetch in progress in process c
TriedBefore(c, k) == {stack[c][j].sourceIndex : j \in 1..(k - 1)}

PriorityOf(sourceIndex) == CONFIG.sources[sourceIndex + 1].priority

\* C25: during a fetch of the free lists that starts from the beginning
\* (the startup fetch), whatever the order of the entries of
\* CONFIG.freeProxyList.sources, a source is tried only after every source
\* with a lower priority value has been tried; the first source tried is
\* the one with the lowest priority value.
C25_PriorityOrder ==
    \A c \in Threads :
        (fetchFor[c] = "startup" /\ proxyMode[c] = "free-proxy-list") =>
            \A k \in 1..Len(stack[c]) : \A i \in 0..(NumSources - 1) :
                PriorityOf(i) < PriorityOf(stack[c][k].sourceIndex) =>
                    i \in TriedBefore(c, k)


\* a getNextFreeProxy call of process c finds nothing to take and begins a fetch
RefetchStarts(c) ==
    proxyMode[c] = "free-proxy-list" /\ pc[c] = "attempt" /\ pc'[c] = "fetch"

PoolConsumed(c) ==
    Len(freeProxyList[c]) = 0 \/ freeProxyIndex[c] >= Len(freeProxyList[c])

\* the fetch begun by a getNextFreeProxy call of process c installs a pool
RefetchInstalls(c) ==
    proxyMode[c] = "free-proxy-list" /\ fetchFor[c] = "next" /\ Installs(c)

\* C26: getNextFreeProxy begins a fetch only when the active pool is empty
\* or fully consumed, and begins it at source (currentSourceIndex + 1) mod N.
\* When that fetch succeeds the pool is the fetched unused records of the
\* supplying source and nothing else (no identity of the old pool is in
\* it), proxyFetchAttempts is 0, currentSourceIndex is the index of the
\* supplying source, and the cursor counts from 0 again: the call's own take
\* leaves it at 1 in rotation mode and at 0 otherwise.
C26_Refetch ==
    [][\A c \in Threads :
          /\ RefetchStarts(c) =>
                /\ PoolConsumed(c)
                /\ stack'[c] = <<Frame((currentSourceIndex[c] + 1) % NumSources)>>
          /\ RefetchInstalls(c) =>
                LET new == lastFetch'[c].pool
                    supplier == stack[c][Len(stack[c])].sourceIndex
                IN  /\ new = FilterUnused(lastFetch'[c].raw, usedProxies[c])
                    /\ \A k \in 1..Len(new) : new[k].source = supplier + 1
                    /\ \A k \in 1..Len(freeProxyList'[c]) :
                          /\ \E n \in 1..Len(new) : freeProxyList'[c][k] = new[n]
                          /\ getProxyId(freeProxyList'[c][k]) \notin IdsOf(freeProxyList[c])
                    /\ Len(freeProxyList'[c]) =
                          IF CONFIG.rotateProxies THEN Len(new) ELSE Len(new) - 1
                    /\ freeProxyIndex'[c] = IF CONFIG.rotateProxies THEN 1 ELSE 0
                    /\ proxyFetchAttempts'[c] = 0
                    /\ currentSourceIndex'[c] = supplier]_vars

\* the pool of the second source was used up and the refetch, begun at the
\* first source again, installed a pool from it
C26_Witness ==
    /\ CONFIG.proxyMode = "free-proxy-list" /\ pc[Main] = "visit" /\ unit[Main] = 2
    /\ lastFetch[Main] # NoFetch /\ requests[Main] = 1
    /\ currentSourceIndex[Main] = 0 /\ currentProxy[Main].source = 1
    /\ \E h \in handed : h.unit = 1 /\ h.proxy.source = 2


(* ---------------- claims on the result of a fetch ------------------------ *)
\* this step is one answer of a provider to the fetch of process c
FetchStep(c) == pc[c] = "fetch" /\ requests'[c] = requests[c] + 1

\* ... and with it the fetch returns to its caller
FetchReturns(c) ==
    /\ FetchStep(c)
    /\ pc'[c] = "visit" \/ (pc'[c] = "dispatch" /\ Pooled(proxyMode'[c]))

\* ... or throws to its caller
FetchFails(c) ==
    /\ FetchStep(c)
    /\ pc'[c] = "caught" \/ (pc'[c] = "dispatch" /\ ~Pooled(proxyMode'[c]))

\* C27: a fetch that returns has installed a non-empty pool, and a fetch
\* that does not return a pool throws and leaves the pool as it was. While
\* every answer so far lost all its candidates to the filter, the fetch
\* never returns: fetchFreeProxyList goes on to the next source of the
\* list, fetchProxiflyProxies counts an attempt and calls the API again,
\* and when there is no next source, or no attempt left, the fetch throws.
C27_NeverEmptyPool ==
    [][\A c \in Threads : FetchStep(c) =>
          LET list == proxyMode[c] = "free-proxy-list"
              top == stack[c][Len(stack[c])].sourceIndex
          IN  /\ FetchReturns(c) \/ FetchFails(c) \/ pc'[c] = "fetch"
              /\ FetchReturns(c) =>
                    /\ lastFetch'[c].pool # <<>>
                    /\ pc'[c] = "dispatch" => PoolOf(c)' = lastFetch'[c].pool
              /\ FetchFails(c) =>
                    /\ PoolOf(c)' = PoolOf(c)
                    /\ pc'[c] = "caught" => thrown'[c] # NoError
              /\ list => \A k \in 1..Len(stack'[c]) :
                            stack'[c][k].sourceIndex < NumSources
              /\ allZero'[c] =>
                    /\ ~FetchReturns(c)
                    /\ list /\ top + 1 < NumSources =>
                          stack'[c] = Append(stack[c], Frame(top + 1))
                    /\ ~list =>
                          /\ proxyFetchAttempts'[c] = proxyFetchAttempts[c] + 1
                          /\ pc'[c] = "fetch" <=>
                                proxyFetchAttempts'[c] < MAX_FETCH_ATTEMPTS
                    /\ FetchFails(c) =>
                          IF list THEN top + 1 = NumSources
                          ELSE proxyFetchAttempts'[c] >= MAX_FETCH_ATTEMPTS]_vars

\* every candidate of every answer was registered already: the list fetch
\* ran out of sources, or the API fetch out of attempts, and threw
C27_Witness ==
    /\ pc[Main] = "caught" /\ allZero[Main] /\ usedProxies[Main] # {}
    /\ requests[Main] >= (IF CONFIG.proxyMode = "proxifly" THEN MAX_FETCH_ATTEMPTS - 1 ELSE NumSources)
    /\ thrown[Main].text = "Failed to fetch new proxies"


\* C28: at the moment a fetch has installed a pool, no record of that pool
\* has an identity in the registry. For the startup fetch that moment is the
\* state after the step; for a fetch made by a getNext call the registry of
\* that moment is the one before the step, and after the take that ends the
\* step the only registered identity in the pool is the one just returned.
C28_FreshPool ==
    [][\A c \in Threads : (FetchStep(c) /\ FetchReturns(c)) =>
          /\ IdsOf(lastFetch'[c].pool) \cap usedProxies[c] = {}
          /\ IF pc'[c] = "dispatch"
             THEN /\ PoolOf(c)' = lastFetch'[c].pool
                  /\ usedProxies'[c] = usedProxies[c]
                  /\ IdsOf(PoolOf(c)') \cap usedProxies'[c] = {}
             ELSE /\ usedProxies'[c] = usedProxies[c] \cup {getProxyId(currentProxy'[c])}
                  /\ IdsOf(PoolOf(c)') \cap usedProxies'[c]
                        \subseteq {getProxyId(currentProxy'[c])}]_vars

\* a getNext call fetched while one identity was registered, the provider
\* offered that identity again among others, and the call returned a record
C28_Witness ==
    /\ pc[Main] = "visit" /\ lastFetch[Main] # NoFetch
    /\ lastFetch[Main].used # {}
    /\ IdsOf(lastFetch[Main].raw) \cap lastFetch[Main].used # {}
    /\ Cardinality(usedProxies[Main]) = 2


(* ---------------- claims on the credential ------------------------------- *)
\* what a getNext call throws when fetchProxiflyProxies found no API key
MissingKeyFailure == Wrap("Failed to fetch new proxies", ApiKeyRequired)

\* C29: with no API key configured, fetchProxiflyProxies throws at once
\* wherever it is called: the provider is never asked (no process ever
\* awaits an answer and none is counted), the startup call ends in the
\* dispatcher's fallback and a getNext call in the missing-key error, which
\* scrapeWithRetry does not retry; the pool, the cursor, the registry and
\* proxyFetchAttempts of every process keep their values.
C29_MissingKeyFailsAtOnce ==
    [][(CONFIG.proxyMode = "proxifly" /\ ~CONFIG.apiKey) =>
          \A c \in Threads :
             /\ pc'[c] # "fetch" /\ requests'[c] = 0
             /\ proxiflyProxies'[c] = proxiflyProxies[c]
             /\ proxiflyCurrentIndex'[c] = proxiflyCurrentIndex[c]
             /\ usedProxies'[c] = usedProxies[c]
             /\ proxyFetchAttempts'[c] = proxyFetchAttempts[c]
             /\ (pc[c] = "startup" /\ pc'[c] # "startup") =>
                   pc'[c] = "dispatch" /\ proxyMode'[c] = "none"
             /\ (pc[c] = "attempt" /\ pc'[c] \notin {"attempt", "exited"}
                                    /\ proxyMode[c] = "proxifly") =>
                   pc'[c] = "caught" /\ thrown'[c] = MissingKeyFailure
             /\ (pc[c] = "caught" /\ thrown[c] = MissingKeyFailure) =>
                   pc'[c] # "sleep" /\ retryCount'[c] = retryCount[c]]_vars

\* a worker's request failed on the missing key at its first attempt, with
\* a retry still allowed by the configuration
C29_Witness ==
    /\ CONFIG.proxyMode = "proxifly" /\ ~CONFIG.apiKey /\ CONFIG.maxRetries = 1
    /\ \E w \in Workers :
          /\ pc[w] = "return" /\ retryCount[w] = 0
          /\ ~result[w].success /\ result[w].error = MissingKeyFailure
          /\ proxiflyProxies[w] = <<>> /\ usedProxies[w] = {}


(* ---------------- claims on the identity of a record --------------------- *)
\* host and port of a record that carries them in one of the two shapes
HostOf(proxy) == IF proxy.ipPort # NoStr THEN proxy.ipPort[1] ELSE proxy.ip
PortOf(proxy) == IF proxy.ipPort # NoStr THEN proxy.ipPort[2] ELSE proxy.port

SameHostPort(a, b) == HostOf(a) = HostOf(b) /\ PortOf(a) = PortOf(b)

HandedRecords == {h.proxy : h \in handed}

\* C30: of two records that carry host and port, as ipPort or as ip and
\* port, getProxyId gives the same identity exactly when host and port are
\* the same, whatever the shape, protocol and source of the two records; so
\* the registry holds one identity per host:port handed out.
C30_IdentityIsHostPort ==
    /\ \A a, b \in HandedRecords :
          SameHostPort(a, b) <=> getProxyId(a) = getProxyId(b)
    /\ \A c \in Threads :
          Cardinality(usedProxies[c]) =
             Cardinality({<<HostOf(h.proxy), PortOf(h.proxy)>> :
                             h \in {x \in handed : x.thread = c}})

\* the same host:port handed out twice, once as ipPort and once as ip and
\* port, with different protocol and source: one identity registered
C30_Witness ==
    /\ Cardinality(usedProxies[Main]) = 1
    /\ \E a, b \in HandedRecords :
          /\ a.ipPort # NoStr /\ b.ipPort = NoStr
          /\ a.protocol # b.protocol /\ a.source # b.source
          /\ SameHostPort(a, b)


(* ---------------- claims on the launch ----------------------------------- *)
\* the attempt of process c was handed a record and its browser was launched
LaunchedWithRecord(c) ==
    /\ Pooled(proxyMode[c]) /\ currentProxy[c] # NoProxy
    /\ pc[c] \in {"return", "caught"}

\* C31: in both pooled modes, once an attempt has been handed a record by
\* the pool manager and has launched its browser, the browser's
\* --proxy-server is the host:port of that record: no record is consumed
\* and registered while the visit goes out without it.
C31_LaunchedThroughProxy ==
    \A c \in Threads :
        LaunchedWithRecord(c) => proxyServer[c] = getProxyId(currentProxy[c])


(* ---------------- claims on the statistics ------------------------------ *)
\* units handed to scrapeWithRetry so far: worker threads started by the
\* concurrent dispatcher, requests entered by the sequential one
LaunchedSoFar ==
    IF CONFIG.maxConcurrent > 1
    THEN Cardinality({w \in Workers : Launched(w)})
    ELSE unit[Main]

\* C32: every dispatched unit is folded into the statistics exactly once:
\* successful + failed = total in every state, total never exceeds the
\* number of units launched so far, and when the run has ended total is
\* CONFIG.totalRequests.
C32_CountedExactlyOnce ==
    /\ results.successful + results.failed = results.total
    /\ results.total <= LaunchedSoFar
    /\ pc[Main] = "done" => results.total = CONFIG.totalRequests

(* ---------------- claims on one fetchFreeProxyList call ----------------- *)
\* the source index the outermost activation of the running call was given
StartIndex(c) == stack[c][1].sourceIndex

\* source requests issued so far by the running call: the answered ones and
\* the one the innermost activation is waiting for
Issued(c) == requests[c] + 1

FetchingFreeList(c) ==
    pc[c] = "fetch" /\ proxyMode[c] = "free-proxy-list" /\ stack[c] # <<>>

\* C33: one top-level fetchFreeProxyList(i) call requests each configured
\* source at most once, so it issues at most N - i source requests for N
\* configured sources, also when sources fail or yield no unused candidate.
C33_EachSourceOnce ==
    \A c \in Threads :
        FetchingFreeList(c) => Issued(c) <= NumSources - StartIndex(c)

(* ---------------- claims on a fetch that fails -------------------------- *)
\* both pools with their cursors, currentSourceIndex and the registry
PoolState(c) ==
    <<freeProxyList[c], freeProxyIndex[c], proxiflyProxies[c],
      proxiflyCurrentIndex[c], currentSourceIndex[c], usedProxies[c]>>

\* a step of a fetch of thread c that does not end it by returning a pool:
\* the call is entered, or throws at once, or one answer is taken and the
\* fetch goes on or throws
FetchNotReturning(c) ==
    \/ pc[c] \in {"startup", "attempt"} /\ Pooled(proxyMode[c])
          /\ (pc'[c] \in {"fetch", "caught"} \/ pc'[c] = "dispatch")
    \/ FetchStep(c) /\ ~FetchReturns(c) /\ pc'[c] # "exited"

\* C34: a fetch that fails (fetchFreeProxyList or fetchProxiflyProxies
\* throwing) leaves the active pool, its cursor, currentSourceIndex and the
\* registry as they were before the call: no step of a fetch other than
\* the one that returns a pool changes any of them.
C34_FailedFetchChangesNothing ==
    [][\A c \in Threads : FetchNotReturning(c) => PoolState(c)' = PoolState(c)]_vars

\* a refetch has failed after records were handed out: the consumed pool
\* and the registry are still there
C34_Witness ==
    /\ pc[Main] = "caught" /\ thrown[Main].text = "Failed to fetch new proxies"
    /\ requests[Main] > 0
    /\ PoolOf(Main) # <<>> /\ CursorOf(Main) = Len(PoolOf(Main))
    /\ usedProxies[Main] # {}

(* ---------------- claims on the attempt counter ------------------------- *)
FreeExhausted(c) ==
    Len(freeProxyList[c]) = 0 \/ freeProxyIndex[c] >= Len(freeProxyList[c])

\* the pool of c is used up and its counter has reached the limit
Stuck(c) ==
    /\ proxyMode[c] = "free-proxy-list" /\ FreeExhausted(c)
    /\ proxyFetchAttempts[c] >= MAX_FETCH_ATTEMPTS

\* C35: proxyFetchAttempts is reset only by a fetch that returns a pool;
\* in free-proxy-list mode, once the pool is used up and the counter has
\* reached MAX_FETCH_ATTEMPTS, this stays so for as long as the thread
\* lives: every later getNextFreeProxy call throws the "Unable to fetch"
\* error, no source is requested and no record is returned.
C35_CounterSticks ==
    [][\A c \in Threads : pc'[c] # "exited" =>
          /\ proxyFetchAttempts'[c] < proxyFetchAttempts[c] =>
                FetchReturns(c) /\ proxyFetchAttempts'[c] = 0
          /\ Stuck(c) =>
                /\ Stuck(c)'
                /\ pc'[c] \notin {"fetch", "visit"}
                /\ requests'[c] <= requests[c]
                /\ pc[c] = "attempt" =>
                      pc'[c] = "caught" /\ thrown'[c] = UnableToFetch]_vars

\* a getNextFreeProxy call made after the counter had reached the limit
\* has failed at once
C35_Witness ==
    /\ Stuck(Main) /\ proxyFetchAttempts[Main] > MAX_FETCH_ATTEMPTS
    /\ pc[Main] = "caught" /\ thrown[Main] = UnableToFetch /\ requests[Main] = 0

(* ---------------- claims on sources with fixed contents ----------------- *)
\* every identity some configured source lists
AllListed ==
    UNION {IdsOf(LineRecords(CONFIG.sources[k].served, k - 1)) : k \in 1..NumSources}

\* C36: in one process, after the startup fetch, with sequential rotation,
\* sources whose contents do not change and no transport failure,
\* getNextFreeProxy fails only when every identity listed by every
\* configured source is in the registry.
C36_NothingLeftUnused ==
    \A c \in Threads :
        (CONFIG.rotateProxies /\ proxyMode[c] = "free-proxy-list"
           /\ FailedInGetNext(c)) => AllListed \subseteq usedProxies[c]

\* both sources list something, not the same, and the pool manager has
\* reported exhaustion after a refetch that asked the sources again
C36_Witness ==
    /\ CONFIG.rotateProxies /\ FailedInGetNext(Main)
    /\ thrown[Main].text = "Failed to fetch new proxies" /\ requests[Main] > 0
    /\ CONFIG.sources[1].served # <<>> /\ CONFIG.sources[2].served # <<>>
    /\ Cardinality(AllListed) = NumIds /\ usedProxies[Main] = AllListed

(* ---------------- claims on the cursors --------------------------------- *)
InRange(c) ==
    /\ 0 <= freeProxyIndex[c] /\ freeProxyIndex[c] <= Len(freeProxyList[c])
    /\ 0 <= proxiflyCurrentIndex[c]
    /\ proxiflyCurrentIndex[c] <= Len(proxiflyProxies[c])
    /\ getProxyStats(c).remainingInPool >= 0

\* C37: in every state the cursor of each pool is between 0 and the size
\* of the pool, so remainingInPool of getProxyStats is never negative, and
\* a getNext call that returns normally returns the record at a position
\* of the active pool (as it was, or as the call installed it), never an
\* undefined slot.
C37_CursorInRange ==
    [][\A c \in Threads :
          /\ InRange(c) /\ InRange(c)'
          /\ Returns(c) =>
                LET base == IF Installs(c) THEN lastFetch'[c].pool ELSE PoolOf(c)
                IN  /\ currentProxy'[c] # NoProxy
                    /\ \E i \in 1..Len(base) : currentProxy'[c] = base[i]]_vars

\* the last record of a full pool has been returned: nothing remains
C37_Witness ==
    /\ pc[Main] = "visit" /\ Pooled(proxyMode[Main])
    /\ getProxyStats(Main).currentPoolSize = MaxLen
    /\ getProxyStats(Main).remainingInPool = 0
    /\ currentProxy[Main] = PoolOf(Main)[MaxLen]
============================================================================
